---- MODULE Spec2Model ----
(***************************************************************************)
(* A model of the ingest pipeline of stock-service: the positions consumer *)
(* with the transactional ReplaceAllPositions, and the watchlist consumer  *)
(* with the UpsertStockBasic merge rule.                                   *)
(*                                                                         *)
(* Text (symbols, names, decimal strings) is a sequence of one-character   *)
(* strings, so that strings.ToUpper and decimal.NewFromString are computed *)
(* character by character.                                                 *)
(***************************************************************************)
EXTENDS Integers, Sequences, FiniteSets, TLC

(***************************************************************************)
(* Bounds of the model.                                                    *)
(***************************************************************************)
\* rows of one positions snapshot
MaxRows == 2
\* added_symbols of one WATCHLIST_UPDATED event
MaxAdded == 2
\* messages on the two topics together, where the topics are modelled
MaxLog == 2
\* the wall clock (time.Now(), NOW()) runs over 0..MaxClock
MaxClock == 1
\* digits kept by Decimal.Div (shopspring's DivisionPrecision is 16)
DivisionPrecision == 2

(***************************************************************************)
(* strings.ToUpper                                                         *)
(***************************************************************************)
LowerLetters ==
    <<"a","b","c","d","e","f","g","h","i","j","k","l","m",
      "n","o","p","q","r","s","t","u","v","w","x","y","z">>

UpperLetters ==
    <<"A","B","C","D","E","F","G","H","I","J","K","L","M",
      "N","O","P","Q","R","S","T","U","V","W","X","Y","Z">>

ToUpperChar(c) ==
    IF \E i \in DOMAIN LowerLetters : LowerLetters[i] = c
    THEN UpperLetters[CHOOSE i \in DOMAIN LowerLetters : LowerLetters[i] = c]
    ELSE c

ToUpper(s) == [i \in DOMAIN s |-> ToUpperChar(s[i])]

(***************************************************************************)
(* decimal.Decimal: value * 10^exp                                         *)
(***************************************************************************)
Digits == <<"0","1","2","3","4","5","6","7","8","9">>

IsDigit(c) == \E i \in DOMAIN Digits : Digits[i] = c

DigitVal(c) == (CHOOSE i \in DOMAIN Digits : Digits[i] = c) - 1

RECURSIVE Pow10(_)
Pow10(n) == IF n <= 0 THEN 1 ELSE 10 * Pow10(n - 1)

Abs(x) == IF x < 0 THEN -x ELSE x

Sign(x) == IF x < 0 THEN -1 ELSE IF x > 0 THEN 1 ELSE 0

RECURSIVE DigitsVal(_)
DigitsVal(s) ==
    IF s = <<>> THEN 0
    ELSE 10 * DigitsVal(SubSeq(s, 1, Len(s) - 1)) + DigitVal(s[Len(s)])

\* strconv.ParseInt(s, 10, 64): an optional sign, then one or more digits
ParseInt(s) ==
    LET signed == s # <<>> /\ s[1] \in {"+", "-"}
        body   == IF signed THEN Tail(s) ELSE s
    IN  IF body = <<>> \/ \E i \in DOMAIN body : ~IsDigit(body[i])
        THEN [err |-> TRUE, v |-> 0]
        ELSE [err |-> FALSE,
              v   |-> IF signed /\ s[1] = "-" THEN -DigitsVal(body)
                      ELSE DigitsVal(body)]

DecimalZero == [value |-> 0, exp |-> 0]

\* decimal.NewFromString
NewFromString(s) ==
    LET es     == {i \in DOMAIN s : s[i] \in {"e", "E"}}
        eIndex == IF es = {} THEN 0 ELSE CHOOSE i \in es : \A j \in es : i <= j
        expInt == IF eIndex = 0 THEN [err |-> FALSE, v |-> 0]
                  ELSE ParseInt(SubSeq(s, eIndex + 1, Len(s)))
        value  == IF eIndex = 0 THEN s ELSE SubSeq(s, 1, eIndex - 1)
        dots   == {i \in DOMAIN value : value[i] = "."}
        pIndex == IF dots = {} THEN 0 ELSE CHOOSE i \in dots : TRUE
        intString == IF dots = {} THEN value
                     ELSE SubSeq(value, 1, pIndex - 1)
                          \o SubSeq(value, pIndex + 1, Len(value))
        exp    == IF dots = {} THEN expInt.v
                  ELSE expInt.v - (Len(value) - pIndex)
        parsed == ParseInt(intString)
    IN  IF expInt.err \/ Cardinality(dots) > 1 \/ parsed.err
        THEN [err |-> TRUE, d |-> DecimalZero]
        ELSE [err |-> FALSE, d |-> [value |-> parsed.v, exp |-> exp]]

\* Decimal.IsZero
IsZero(d) == d.value = 0

\* Decimal.Cmp: -1, 0 or 1, after rescaling both to the smaller exponent
Cmp(a, b) ==
    LET m  == IF a.exp < b.exp THEN a.exp ELSE b.exp
        av == a.value * Pow10(a.exp - m)
        bv == b.value * Pow10(b.exp - m)
    IN  Sign(av - bv)

\* big.Int.QuoRem truncates toward zero
QuoTrunc(a, b) == Sign(a) * Sign(b) * (Abs(a) \div Abs(b))

\* Decimal.QuoRem(d2, precision)
QuoRem(d, d2, precision) ==
    LET scale == -precision
        e     == d.exp - d2.exp - scale
        aa    == IF e < 0 THEN d.value ELSE d.value * Pow10(e)
        bb    == IF e < 0 THEN d2.value * Pow10(-e) ELSE d2.value
        q     == QuoTrunc(aa, bb)
        r     == aa - bb * q
    IN  [q |-> [value |-> q, exp |-> scale],
         r |-> [value |-> r, exp |-> IF e < 0 THEN d.exp ELSE scale + d2.exp]]

\* Decimal.Div(d2) = d.DivRound(d2, DivisionPrecision): half away from zero
Div(d, d2) ==
    LET qr == QuoRem(d, d2, DivisionPrecision)
        r2 == [value |-> 2 * Abs(qr.r.value),
               exp   |-> qr.r.exp + DivisionPrecision]
        d2abs == [value |-> Abs(d2.value), exp |-> d2.exp]
    IN  IF Cmp(r2, d2abs) < 0 THEN qr.q
        ELSE IF Sign(d.value) * Sign(d2.value) < 0
             THEN [value |-> qr.q.value - 1, exp |-> qr.q.exp]
             ELSE [value |-> qr.q.value + 1, exp |-> qr.q.exp]

\* Decimal.Value / String: the canonical text the driver sends to the
\* NUMERIC column, trailing zeros trimmed (12.50 and 12.5 are one number)
RECURSIVE Numeric(_)
Numeric(d) ==
    IF d.value = 0 THEN DecimalZero
    ELSE IF d.exp > 0 THEN [value |-> d.value * Pow10(d.exp), exp |-> 0]
    ELSE IF d.exp < 0 /\ d.value % 10 = 0
         THEN Numeric([value |-> d.value \div 10, exp |-> d.exp + 1])
    ELSE d


(***************************************************************************)
(* State                                                                   *)
(***************************************************************************)
VARIABLES
    clock,          \* the last wall-clock reading; readings never go back
    positions,      \* the committed rows of the positions table
    tx,             \* the transaction of ReplaceAllPositions, or NoTx
    pPc,            \* where the positions consumer stands
    pMsg,           \* the message it is processing
    pConverted,     \* the []*models.Position built from the message
    pIdx,           \* the insert loop's index into pConverted
    pResult,        \* what processMessage returned for pMsg
    snapPrev,       \* the table as it was when ReplaceAllPositions was called
    observed,       \* what a reader's query returned since that call began
    stocks,         \* the stocks table: symbol -> row
    wPc,            \* where the watchlist consumer stands
    wMsg,           \* the message it is processing
    wIdx,           \* the added_symbols loop's index
    wCall,          \* the last store call the consumer issued, with its outcome
    wResult,        \* what processMessage returned for wMsg
    pLog,           \* the positions topic: the messages of its partition
    pOffset,        \* how many of them the positions reader has returned
    pCommitted,     \* the offset committed for the group "-positions"
    wLog,           \* the watchlist topic
    wOffset,        \* how many of its messages the watchlist reader has returned
    wCommitted,     \* the offset committed for the group "-watchlist"
    wPrev,          \* the stocks table when wMsg was read off the topic, and
                    \* whether the store had rejected an upsert of the message before
    wFailed,        \* whether the store has rejected an upsert of wMsg
    cancel,         \* the context the consumers run under: whether main has
                    \* cancelled it, and where each consumer stood when it did
    pClosed,        \* whether Close has been called on the positions reader
    wClosed,        \* whether Close has been called on the watchlist reader
    host            \* main: where it stands, and the calls of Close so far

\* the kafka.Reader of each consumer; the positions consumer's comes with the
\* context both Start loops are given
pBus == <<pLog, pOffset, pCommitted, pClosed, cancel, host>>

wBus == <<wLog, wOffset, wCommitted, wClosed>>

posVars == <<positions, tx, pPc, pMsg, pConverted, pIdx, pResult, snapPrev, observed, pBus>>

wlVars == <<stocks, wPc, wMsg, wIdx, wCall, wResult, wBus, wPrev, wFailed>>

vars == <<clock, posVars, wlVars>>

SeqsUpTo(S, n) == UNION {[1..k -> S] : k \in 0..n}

Range(f) == {f[i] : i \in DOMAIN f}

Times == 0..MaxClock

\* a reading of the wall clock: any instant not before the last reading
Readings == {t \in Times : t >= clock}

(***************************************************************************)
(* The positions topic                                                     *)
(***************************************************************************)
AAPL == <<"A","A","P","L">>
GOOG == <<"G","O","O","G">>
MSFT == <<"M","S","F","T">>
TSLA == <<"T","S","L","A">>

\* models.PositionData (equity_change and updated_at are never read)
AaplData ==
    [Symbol |-> AAPL, Quantity |-> <<"1","0">>,
     AverageBuyPrice |-> <<"1","5","0">>, Equity |-> <<"1","6","0","0">>,
     PercentChange |-> <<"6",".","5","0">>]

GoogData ==
    [Symbol |-> GOOG, Quantity |-> <<"5">>,
     AverageBuyPrice |-> <<"2","8","0","0">>,
     Equity |-> <<"1","4","1","0","0">>,
     PercentChange |-> <<"0",".","7">>]

BadQuantityData ==
    [Symbol |-> MSFT, Quantity |-> <<"1","x">>,
     AverageBuyPrice |-> <<"3","0","0">>, Equity |-> <<"9","0","0">>,
     PercentChange |-> <<"1">>]

BadPriceData ==
    [Symbol |-> TSLA, Quantity |-> <<"3">>,
     AverageBuyPrice |-> <<>>, Equity |-> <<"6","0","0">>,
     PercentChange |-> <<"1">>]

PositionRows == {AaplData, GoogData, BadQuantityData, BadPriceData}

SNAPSHOT == "POSITIONS_SNAPSHOT"

\* kafka.Message.Value: bytes that are a JSON document of the envelope, or not
NoMsg == [json |-> FALSE, EventType |-> "", Positions |-> <<>>, none |-> TRUE]

GarbageValue == [json |-> FALSE, EventType |-> "", Positions |-> <<>>, none |-> FALSE]

SnapshotValue(ps) ==
    [json |-> TRUE, EventType |-> SNAPSHOT, Positions |-> ps, none |-> FALSE]

OtherValue ==
    [json |-> TRUE, EventType |-> "ACCOUNT_UPDATED",
     Positions |-> <<AaplData>>, none |-> FALSE]

PosMessages(rows) ==
    {GarbageValue, OtherValue}
        \cup {SnapshotValue(ps) : ps \in SeqsUpTo(rows, MaxRows)}

\* a decode whose error is dropped: the event keeps Go's zero value
Unmarshal_ErrorDropped(value) ==
    IF value.json
    THEN [err |-> FALSE,
          event |-> [EventType |-> value.EventType,
                     Data |-> [Positions |-> value.Positions]]]
    ELSE [err |-> FALSE,
          event |-> [EventType |-> "", Data |-> [Positions |-> <<>>]]]

\* json.Unmarshal(msg.Value, &event)
Unmarshal(value) ==
    IF value.json
    THEN [err |-> FALSE,
          event |-> [EventType |-> value.EventType,
                     Data |-> [Positions |-> value.Positions]]]
    ELSE [err |-> TRUE,
          event |-> [EventType |-> "", Data |-> [Positions |-> <<>>]]]

(***************************************************************************)
(* PositionsConsumer.convertPositionData                                   *)
(***************************************************************************)
NoPosition ==
    [Symbol |-> <<>>, Quantity |-> DecimalZero, EntryPrice |-> DecimalZero,
     EntryDate |-> 0, CurrentPrice |-> DecimalZero,
     UnrealizedPnlPct |-> DecimalZero, DaysHeld |-> 0]

\* a conversion that writes zero for a quantity or price it cannot parse
convertPositionData_ZeroFallback(pd, now) ==
    LET quantity   == NewFromString(pd.Quantity)
        entryPrice == NewFromString(pd.AverageBuyPrice)
        equityP    == NewFromString(pd.Equity)
        percentP   == NewFromString(pd.PercentChange)
    IN  [err |-> FALSE,
         position |-> [Symbol |-> pd.Symbol,
                       Quantity |-> quantity.d,
                       EntryPrice |-> entryPrice.d,
                       EntryDate |-> now,
                       CurrentPrice |-> IF ~IsZero(quantity.d)
                                        THEN Div(equityP.d, quantity.d)
                                        ELSE DecimalZero,
                       UnrealizedPnlPct |-> percentP.d,
                       DaysHeld |-> 0]]

\* a conversion that rejects a row whose quantity is zero
convertPositionData_DropsZeroQuantity(pd, now) ==
    LET quantity   == NewFromString(pd.Quantity)
        entryPrice == NewFromString(pd.AverageBuyPrice)
        equityP    == NewFromString(pd.Equity)
        equity     == IF equityP.err THEN DecimalZero ELSE equityP.d
        percentP   == NewFromString(pd.PercentChange)
        percentChange == IF percentP.err THEN DecimalZero ELSE percentP.d
    IN  IF quantity.err \/ entryPrice.err \/ IsZero(quantity.d)
        THEN [err |-> TRUE, position |-> NoPosition]
        ELSE [err |-> FALSE,
              position |-> [Symbol |-> pd.Symbol,
                            Quantity |-> quantity.d,
                            EntryPrice |-> entryPrice.d,
                            EntryDate |-> now,
                            CurrentPrice |-> Div(equity, quantity.d),
                            UnrealizedPnlPct |-> percentChange,
                            DaysHeld |-> 0]]

\* a conversion that rejects a row whose equity or percent_change does not
\* parse
convertPositionData_StrictEquity(pd, now) ==
    LET quantity   == NewFromString(pd.Quantity)
        entryPrice == NewFromString(pd.AverageBuyPrice)
        equityP    == NewFromString(pd.Equity)
        percentP   == NewFromString(pd.PercentChange)
        currentPrice  == IF ~IsZero(quantity.d) THEN Div(equityP.d, quantity.d)
                         ELSE DecimalZero
    IN  IF quantity.err \/ entryPrice.err \/ equityP.err \/ percentP.err
        THEN [err |-> TRUE, position |-> NoPosition]
        ELSE [err |-> FALSE,
              position |-> [Symbol |-> pd.Symbol,
                            Quantity |-> quantity.d,
                            EntryPrice |-> entryPrice.d,
                            EntryDate |-> now,
                            CurrentPrice |-> currentPrice,
                            UnrealizedPnlPct |-> percentP.d,
                            DaysHeld |-> 0]]

convertPositionData(pd, now) ==
    LET quantity   == NewFromString(pd.Quantity)
        entryPrice == NewFromString(pd.AverageBuyPrice)
        equityP    == NewFromString(pd.Equity)
        equity     == IF equityP.err THEN DecimalZero ELSE equityP.d
        percentP   == NewFromString(pd.PercentChange)
        percentChange == IF percentP.err THEN DecimalZero ELSE percentP.d
        currentPrice  == IF ~IsZero(quantity.d) THEN Div(equity, quantity.d)
                         ELSE DecimalZero
    IN  IF quantity.err \/ entryPrice.err
        THEN [err |-> TRUE, position |-> NoPosition]
        ELSE [err |-> FALSE,
              position |-> [Symbol |-> pd.Symbol,
                            Quantity |-> quantity.d,
                            EntryPrice |-> entryPrice.d,
                            EntryDate |-> now,
                            CurrentPrice |-> currentPrice,
                            UnrealizedPnlPct |-> percentChange,
                            DaysHeld |-> 0]]

\* a conversion loop that gives up at the first row that fails
RECURSIVE ConvertAll_StopsAtBadRow(_, _)
ConvertAll_StopsAtBadRow(pds, now) ==
    IF pds = <<>> THEN <<>>
    ELSE LET c == convertPositionData(Head(pds), now)
         IN  IF c.err THEN <<>>
             ELSE <<c.position>> \o ConvertAll_StopsAtBadRow(Tail(pds), now)

\* the conversion loop of processMessage: rows that fail are skipped
RECURSIVE ConvertAll(_, _)
ConvertAll(pds, now) ==
    IF pds = <<>> THEN <<>>
    ELSE LET c == convertPositionData(Head(pds), now)
         IN  IF c.err THEN ConvertAll(Tail(pds), now)
             ELSE <<c.position>> \o ConvertAll(Tail(pds), now)

(***************************************************************************)
(* DB.ReplaceAllPositions and the positions table                          *)
(***************************************************************************)
NoTx == [open |-> FALSE, rows |-> <<>>, now |-> 0]

NoSnap == [called |-> FALSE, rows |-> <<>>]

NoRead == [read |-> FALSE, rows |-> <<>>]

\* the row INSERT INTO positions writes for p (id, a serial, is left out)
InsertedRow(p, now) ==
    [symbol |-> p.Symbol,
     quantity |-> Numeric(p.Quantity),
     entry_price |-> Numeric(p.EntryPrice),
     entry_date |-> p.EntryDate,
     current_price |-> Numeric(p.CurrentPrice),
     unrealized_pnl_pct |-> Numeric(p.UnrealizedPnlPct),
     days_held |-> p.DaysHeld,
     created_at |-> now,
     updated_at |-> now]

\* a replace that forgets the DELETE: the new rows are added to the old ones
Committed_KeepsOld(table, t) == table \o t.rows

\* the committed table once tx.Commit() has succeeded
Committed(table, t) == t.rows

\* an error path that keeps what the transaction had written so far
RolledBack_KeepsWrites(table, t) == t.rows

\* the committed table once the deferred tx.Rollback() has run
RolledBack(table, t) == table

\* the DELETE run on db.conn instead of tx: readers see the emptied table
WhileDeleted_Autocommit(table) == <<>>

\* the committed table while DELETE FROM positions has run inside the
\* transaction and the transaction is still open
WhileDeleted(table) == table

\* the INSERT run on db.conn instead of tx: each row is visible at once
WhileInserted_Autocommit(table, row) == Append(table, row)

\* the committed table while rows have been inserted inside the open transaction
WhileInserted(table, row) == table

\* any step of ReplaceAllPositions failing: the deferred Rollback, then the
\* error goes back through processMessage to Start, which logs it
ReplaceFails ==
    /\ positions' = RolledBack(positions, tx)
    /\ tx' = NoTx
    /\ pResult' = "failed to replace positions"
    /\ pPc' = "idle"
    /\ UNCHANGED <<pMsg, pConverted, pIdx, observed, clock, wlVars, pBus>>


\* a row some earlier snapshot left in the table
PriorRow ==
    [symbol |-> TSLA, quantity |-> [value |-> 7, exp |-> 0],
     entry_price |-> [value |-> 2005, exp |-> -1], entry_date |-> 0,
     current_price |-> [value |-> 210, exp |-> 0],
     unrealized_pnl_pct |-> [value |-> 47, exp |-> -1],
     days_held |-> 0, created_at |-> 0, updated_at |-> 0]

PriorTables == {<<>>, <<PriorRow>>}

(***************************************************************************)
(* PositionsConsumer.Start: read a message, process it, read the next      *)
(***************************************************************************)
\* c.reader.ReadMessage(ctx) returns the next message of the topic
PReadMessage(msgs) ==
    /\ pPc = "idle"
    /\ \E m \in msgs : pMsg' = m
    /\ pPc' = "process"
    /\ pResult' = "none"
    /\ pConverted' = <<>>
    /\ pIdx' = 0
    /\ snapPrev' = NoSnap
    /\ observed' = NoRead
    /\ UNCHANGED <<positions, tx, clock, wlVars, pBus>>

\* a processMessage without the filter on the event type
PProcessMessage_AnyEventType ==
    /\ pPc = "process"
    /\ LET u == Unmarshal(pMsg)
       IN  IF u.err
           THEN /\ pResult' = "failed to unmarshal positions event"
                /\ pPc' = "idle"
                /\ UNCHANGED <<pConverted, clock>>
           ELSE \E now \in Readings :
                /\ clock' = now
                /\ pConverted' = ConvertAll(u.event.Data.Positions, now)
                /\ pPc' = "begin"
                /\ UNCHANGED pResult
    /\ UNCHANGED <<positions, tx, pMsg, pIdx, snapPrev, observed, wlVars, pBus>>

\* a processMessage that returns when no row of the snapshot converted
PProcessMessage_SkipsEmptySnapshot ==
    /\ pPc = "process"
    /\ LET u == Unmarshal(pMsg)
       IN  IF u.err
           THEN /\ pResult' = "failed to unmarshal positions event"
                /\ pPc' = "idle"
                /\ UNCHANGED <<pConverted, clock>>
           ELSE IF u.event.EventType # SNAPSHOT
           THEN /\ pResult' = "nil"
                /\ pPc' = "idle"
                /\ UNCHANGED <<pConverted, clock>>
           ELSE \E now \in Readings :
                /\ clock' = now
                /\ pConverted' = ConvertAll(u.event.Data.Positions, now)
                /\ IF pConverted' = <<>>
                   THEN pPc' = "idle" /\ pResult' = "nil"
                   ELSE pPc' = "begin" /\ UNCHANGED pResult
    /\ UNCHANGED <<positions, tx, pMsg, pIdx, snapPrev, observed, wlVars, pBus>>

\* processMessage up to the call of ReplaceAllPositions: decode, filter on
\* the event type, convert every row
PProcessMessage ==
    /\ pPc = "process"
    /\ LET u == Unmarshal(pMsg)
       IN  IF u.err
           THEN /\ pResult' = "failed to unmarshal positions event"
                /\ pPc' = "idle"
                /\ UNCHANGED <<pConverted, clock>>
           ELSE IF u.event.EventType # SNAPSHOT
           THEN /\ pResult' = "nil"
                /\ pPc' = "idle"
                /\ UNCHANGED <<pConverted, clock>>
           ELSE \E now \in Readings :
                /\ clock' = now
                /\ pConverted' = ConvertAll(u.event.Data.Positions, now)
                /\ pPc' = "begin"
                /\ UNCHANGED pResult
    /\ UNCHANGED <<positions, tx, pMsg, pIdx, snapPrev, observed, wlVars, pBus>>

\* db.conn.Begin()
TxBegin ==
    /\ pPc = "begin"
    /\ snapPrev' = [called |-> TRUE, rows |-> positions]
    /\ tx' = [open |-> TRUE, rows |-> positions, now |-> 0]
    /\ pPc' = "delete"
    /\ UNCHANGED <<positions, pMsg, pConverted, pIdx, pResult, observed, clock, wlVars, pBus>>

TxBeginFails ==
    /\ pPc = "begin"
    /\ snapPrev' = [called |-> TRUE, rows |-> positions]
    /\ ReplaceFails

\* tx.Exec(`DELETE FROM positions`), then now := time.Now()
TxDelete ==
    /\ pPc = "delete"
    /\ \E now \in Readings :
        /\ clock' = now
        /\ tx' = [open |-> TRUE, rows |-> <<>>, now |-> now]
    /\ positions' = WhileDeleted(positions)
    /\ pIdx' = 1
    /\ pPc' = IF pConverted = <<>> THEN "commit" ELSE "insert"
    /\ UNCHANGED <<pMsg, pConverted, pResult, snapPrev, observed, wlVars, pBus>>

TxDeleteFails ==
    /\ pPc = "delete"
    /\ UNCHANGED snapPrev
    /\ ReplaceFails

\* one turn of the insert loop: tx.QueryRow(insertQuery, ...).Scan(&p.ID)
TxInsert ==
    /\ pPc = "insert"
    /\ LET row == InsertedRow(pConverted[pIdx], tx.now)
       IN  /\ tx' = [tx EXCEPT !.rows = Append(@, row)]
           /\ positions' = WhileInserted(positions, row)
    /\ pIdx' = pIdx + 1
    /\ pPc' = IF pIdx = Len(pConverted) THEN "commit" ELSE "insert"
    /\ UNCHANGED <<pMsg, pConverted, pResult, snapPrev, observed, clock, wlVars, pBus>>

TxInsertFails ==
    /\ pPc = "insert"
    /\ UNCHANGED snapPrev
    /\ ReplaceFails

\* tx.Commit(), and processMessage returns nil
TxCommit ==
    /\ pPc = "commit"
    /\ positions' = Committed(positions, tx)
    /\ tx' = NoTx
    /\ pResult' = "nil"
    /\ pPc' = "idle"
    /\ UNCHANGED <<pMsg, pConverted, pIdx, snapPrev, observed, clock, wlVars, pBus>>

\* tx.Commit() fails: the transaction is aborted
TxCommitFails ==
    /\ pPc = "commit"
    /\ UNCHANGED snapPrev
    /\ ReplaceFails

\* DB.GetAllPositions, from a request handler: one query over the committed
\* rows, at any moment from the call of ReplaceAllPositions on
GetAllPositions ==
    /\ snapPrev.called
    /\ observed' = [read |-> TRUE, rows |-> positions]
    /\ UNCHANGED <<positions, tx, pPc, pMsg, pConverted, pIdx, pResult, snapPrev, clock, wlVars, pBus>>

(***************************************************************************)
(* The watchlist topic                                                     *)
(***************************************************************************)
AaplLower == <<"a","a","p","l">>
MsftMixed == <<"M","s","f","t">>
AppleInc  == <<"A","p","p","l","e"," ","I","n","c",".">>
AppleCo   == <<"A","p","p","l","e"," ","C","o">>

RawSymbols == {AaplLower, AAPL, MsftMixed}

EventNames == {<<>>, AppleInc, AppleCo}

\* WatchlistStock values (instrument_url and added_at are never read)
AaplEntry == [Symbol |-> AaplLower, Name |-> AppleInc]

UnnamedEntry == [Symbol |-> AAPL, Name |-> <<>>]

\* the stocks[] lists of the events: none, one entry, two for one symbol
StockLists == {<<>>, <<AaplEntry>>, <<UnnamedEntry, AaplEntry>>}

RemovedLists == {<<>>, <<AAPL>>}

UPDATED == "WATCHLIST_UPDATED"
ADDED   == "WATCHLIST_SYMBOL_ADDED"
REMOVED == "WATCHLIST_SYMBOL_REMOVED"

\* WatchlistEventData; a field the document leaves out has Go's zero value
\* (all_symbols and total_count are never read but for a log line)
NoData ==
    [AddedSymbols |-> <<>>, RemovedSymbols |-> <<>>, Stocks |-> <<>>,
     Symbol |-> <<>>, Name |-> <<>>]

NoWMsg == [json |-> FALSE, EventType |-> "", Data |-> NoData, none |-> TRUE]

WGarbageValue ==
    [json |-> FALSE, EventType |-> "", Data |-> NoData, none |-> FALSE]

WValue(type, data) ==
    [json |-> TRUE, EventType |-> type, Data |-> data, none |-> FALSE]

UpdatedValues ==
    {WValue(UPDATED, [NoData EXCEPT !.AddedSymbols = a,
                                    !.RemovedSymbols = r,
                                    !.Stocks = st]) :
        a \in SeqsUpTo(RawSymbols, MaxAdded),
        r \in RemovedLists,
        st \in StockLists}

AddedValues ==
    {WValue(ADDED, [NoData EXCEPT !.Symbol = sy, !.Name = n]) :
        sy \in RawSymbols, n \in EventNames}

RemovedValues ==
    {WValue(REMOVED, [NoData EXCEPT !.Symbol = sy]) : sy \in RawSymbols}

UnknownValue == WValue("WATCHLIST_CLEARED", [NoData EXCEPT !.Symbol = AAPL])

WatchlistMessages ==
    {WGarbageValue, UnknownValue}
        \cup UpdatedValues \cup AddedValues \cup RemovedValues

\* S2's document: a WATCHLIST_SYMBOL_ADDED whose data carries "sector" and
\* "industry" next to the symbol and the name
CcjLower   == <<"c","c","j">>
CCJ        == <<"C","C","J">>
CamecoCorp == <<"C","a","m","e","c","o"," ","C","o","r","p">>
Energy     == <<"E","n","e","r","g","y">>
Uranium    == <<"U","r","a","n","i","u","m">>

S2Value ==
    [json |-> TRUE, EventType |-> ADDED, none |-> FALSE,
     Data |-> [AddedSymbols |-> <<>>, RemovedSymbols |-> <<>>, Stocks |-> <<>>,
               Symbol |-> CcjLower, Name |-> CamecoCorp,
               Sector |-> Energy, Industry |-> Uranium]]

\* json.Unmarshal(msg.Value, &event) into a WatchlistEvent: the members of
\* the document that WatchlistEventData declares; any other member is dropped
UnmarshalWatchlist(value) ==
    IF value.json
    THEN [err |-> FALSE,
          event |-> [EventType |-> value.EventType,
                     Data |-> [AddedSymbols |-> value.Data.AddedSymbols,
                               RemovedSymbols |-> value.Data.RemovedSymbols,
                               Stocks |-> value.Data.Stocks,
                               Symbol |-> value.Data.Symbol,
                               Name |-> value.Data.Name]]]
    ELSE [err |-> TRUE, event |-> [EventType |-> "", Data |-> NoData]]

(***************************************************************************)
(* DB.UpsertStockBasic and the stocks table                                *)
(***************************************************************************)
\* the ON CONFLICT arm that always takes the new name
UpsertStockBasic_Overwrites(table, symbol, name, now) ==
    [k \in DOMAIN table \cup {symbol} |->
        IF k = symbol THEN [name |-> name, last_updated |-> now]
        ELSE table[k]]

\* a CASE whose ELSE arm resets a kept name to the symbol
UpsertStockBasic_ElseSymbol(table, symbol, name, now) ==
    [k \in DOMAIN table \cup {symbol} |->
        IF k # symbol THEN table[k]
        ELSE IF symbol \notin DOMAIN table
             THEN [name |-> name, last_updated |-> now]
        ELSE [name |-> IF table[k].name = <<>> \/ table[k].name = k
                       THEN name ELSE k,
              last_updated |-> now]]

\* INSERT INTO stocks (symbol, name, last_updated) VALUES ($1, $2, NOW())
\* ON CONFLICT (symbol) DO UPDATE SET name = CASE ... END, last_updated = NOW()
UpsertStockBasic(table, symbol, name, now) ==
    [k \in DOMAIN table \cup {symbol} |->
        IF k # symbol THEN table[k]
        ELSE IF symbol \notin DOMAIN table
             THEN [name |-> name, last_updated |-> now]
        ELSE [name |-> IF table[k].name = <<>> \/ table[k].name = k
                       THEN name ELSE table[k].name,
              last_updated |-> now]]

\* DB.StockExists
StockExists(table, symbol) == symbol \in DOMAIN table

(***************************************************************************)
(* WatchlistConsumer                                                       *)
(***************************************************************************)
\* a handler that passes the symbol on as it came
handleSymbolAdded_Args_AsIs(event) ==
    [symbol |-> event.Data.Symbol,
     name   |-> IF event.Data.Name = <<>> THEN event.Data.Symbol
                ELSE event.Data.Name]

\* a handler that passes an empty name on as it came
handleSymbolAdded_Args_NoDefault(event) ==
    [symbol |-> ToUpper(event.Data.Symbol), name |-> event.Data.Name]

\* handleSymbolAdded: the symbol and name it passes to UpsertStockBasic
handleSymbolAdded_Args(event) ==
    LET symbol == ToUpper(event.Data.Symbol)
    IN  [symbol |-> symbol,
         name   |-> IF event.Data.Name = <<>> THEN symbol
                    ELSE event.Data.Name]

\* the first entry of stocks[] whose upper-cased symbol is symbol, or 0
FirstMatch(stocksList, symbol) ==
    LET hits == {i \in DOMAIN stocksList :
                    ToUpper(stocksList[i].Symbol) = symbol}
    IN  IF hits = {} THEN 0 ELSE CHOOSE i \in hits : \A j \in hits : i <= j

\* a lookup that compares the entry's symbol as the event carries it
handleWatchlistUpdated_Args_RawCompare(event, i) ==
    LET symbol == ToUpper(event.Data.AddedSymbols[i])
        hits   == {j \in DOMAIN event.Data.Stocks :
                        event.Data.Stocks[j].Symbol = symbol}
        m      == IF hits = {} THEN 0
                  ELSE CHOOSE j \in hits : \A k \in hits : j <= k
    IN  [symbol |-> symbol,
         name   |-> IF m = 0 THEN symbol ELSE event.Data.Stocks[m].Name]

\* handleWatchlistUpdated, one turn of the loop over added_symbols: the
\* symbol and name it passes to UpsertStockBasic
handleWatchlistUpdated_Args(event, i) ==
    LET symbol == ToUpper(event.Data.AddedSymbols[i])
        m      == FirstMatch(event.Data.Stocks, symbol)
    IN  [symbol |-> symbol,
         name   |-> IF m = 0 THEN symbol ELSE event.Data.Stocks[m].Name]

\* a handler that deletes the removed symbols' rows
RemovedSymbolsLogged_Deletes(table, removed) ==
    [k \in DOMAIN table \ Range(removed) |-> table[k]]

\* handleWatchlistUpdated only logs len(removed_symbols): the table after it
RemovedSymbolsLogged(table, removed) == table

\* a WATCHLIST_SYMBOL_REMOVED arm that deletes the symbol's row
SymbolRemovedLogged_Deletes(table, event) ==
    [k \in DOMAIN table \ {ToUpper(event.Data.Symbol)} |-> table[k]]

\* the WATCHLIST_SYMBOL_REMOVED arm only logs the symbol: the table after it
SymbolRemovedLogged(table, event) == table

NoPrev == [table |-> <<>>, failed |-> FALSE]

\* the context before main calls cancel()
NoCancel ==
    [fired |-> FALSE, p |-> "", w |-> "", wMade |-> FALSE, pOff |-> 0, wOff |-> 0]

\* main before it has started a consumer
Starting == [pc |-> "start", pCloses |-> 0, wCloses |-> 0, pAt |-> ""]

\* main waiting on the quit channel, its consumers started
Serving == [Starting EXCEPT !.pc = "serving"]

NoCall == [made |-> FALSE, symbol |-> <<>>, name |-> <<>>, ok |-> FALSE]

\* c.reader.ReadMessage(ctx) returns the next message of the topic
WReadMessage(msgs) ==
    /\ wPc = "idle"
    /\ \E m \in msgs : wMsg' = m
    /\ wPc' = "process"
    /\ wResult' = "none"
    /\ wIdx' = 0
    /\ wCall' = NoCall
    /\ wFailed' = FALSE
    /\ UNCHANGED <<stocks, clock, posVars, wBus, wPrev>>

\* a dispatch whose default arm rejects the event type
WProcessMessage_UnknownTypeFails ==
    /\ wPc = "process"
    /\ LET u == UnmarshalWatchlist(wMsg)
       IN  IF u.err
           THEN /\ wResult' = "failed to unmarshal watchlist event"
                /\ wPc' = "idle"
                /\ UNCHANGED <<stocks, wIdx>>
           ELSE IF u.event.EventType = UPDATED
           THEN /\ stocks' = RemovedSymbolsLogged(stocks, u.event.Data.RemovedSymbols)
                /\ IF u.event.Data.AddedSymbols = <<>>
                   THEN wResult' = "nil" /\ wPc' = "idle" /\ UNCHANGED wIdx
                   ELSE wPc' = "updated" /\ wIdx' = 1 /\ UNCHANGED wResult
           ELSE IF u.event.EventType = ADDED
           THEN /\ wPc' = "added"
                /\ UNCHANGED <<stocks, wIdx, wResult>>
           ELSE IF u.event.EventType = REMOVED
           THEN /\ stocks' = SymbolRemovedLogged(stocks, u.event)
                /\ wResult' = "nil"
                /\ wPc' = "idle"
                /\ UNCHANGED wIdx
           ELSE /\ wResult' = "unknown event type"
                /\ wPc' = "idle"
                /\ UNCHANGED <<stocks, wIdx>>
    /\ UNCHANGED <<wMsg, wCall, clock, posVars, wBus, wPrev, wFailed>>

\* processMessage: decode and dispatch on the event type, up to the first
\* store call of the handler
WProcessMessage ==
    /\ wPc = "process"
    /\ LET u == UnmarshalWatchlist(wMsg)
       IN  IF u.err
           THEN /\ wResult' = "failed to unmarshal watchlist event"
                /\ wPc' = "idle"
                /\ UNCHANGED <<stocks, wIdx>>
           ELSE IF u.event.EventType = UPDATED
           THEN /\ stocks' = RemovedSymbolsLogged(stocks, u.event.Data.RemovedSymbols)
                /\ IF u.event.Data.AddedSymbols = <<>>
                   THEN wResult' = "nil" /\ wPc' = "idle" /\ UNCHANGED wIdx
                   ELSE wPc' = "updated" /\ wIdx' = 1 /\ UNCHANGED wResult
           ELSE IF u.event.EventType = ADDED
           THEN /\ wPc' = "added"
                /\ UNCHANGED <<stocks, wIdx, wResult>>
           ELSE IF u.event.EventType = REMOVED
           THEN /\ stocks' = SymbolRemovedLogged(stocks, u.event)
                /\ wResult' = "nil"
                /\ wPc' = "idle"
                /\ UNCHANGED wIdx
           ELSE /\ wResult' = "nil"
                /\ wPc' = "idle"
                /\ UNCHANGED <<stocks, wIdx>>
    /\ UNCHANGED <<wMsg, wCall, clock, posVars, wBus, wPrev, wFailed>>

\* a loop that returns the store's error instead of logging it
UpdatedLoopNext_StopsOnError ==
    /\ wIdx' = wIdx + 1
    /\ IF ~wCall'.ok
       THEN wResult' = "failed to upsert stock" /\ wPc' = "idle"
       ELSE IF wIdx = Len(wMsg.Data.AddedSymbols)
       THEN wResult' = "nil" /\ wPc' = "idle"
       ELSE UNCHANGED <<wResult, wPc>>
    /\ UNCHANGED <<wMsg, posVars, wBus, wPrev>>

\* the loop of handleWatchlistUpdated moves on to the next added symbol, or
\* the handler returns nil after the last
UpdatedLoopNext ==
    /\ wIdx' = wIdx + 1
    /\ IF wIdx = Len(wMsg.Data.AddedSymbols)
       THEN wResult' = "nil" /\ wPc' = "idle"
       ELSE UNCHANGED <<wResult, wPc>>
    /\ UNCHANGED <<wMsg, posVars, wBus, wPrev>>

\* one added symbol: UpsertStockBasic succeeds
WUpdatedUpsert ==
    /\ wPc = "updated"
    /\ LET a == handleWatchlistUpdated_Args(UnmarshalWatchlist(wMsg).event, wIdx)
       IN  /\ \E now \in Readings :
                /\ clock' = now
                /\ stocks' = UpsertStockBasic(stocks, a.symbol, a.name, now)
           /\ wCall' = [made |-> TRUE, symbol |-> a.symbol, name |-> a.name, ok |-> TRUE]
    /\ UNCHANGED wFailed
    /\ UpdatedLoopNext

\* one added symbol: UpsertStockBasic fails, the error is logged, continue
WUpdatedUpsertFails ==
    /\ wPc = "updated"
    /\ LET a == handleWatchlistUpdated_Args(UnmarshalWatchlist(wMsg).event, wIdx)
       IN  wCall' = [made |-> TRUE, symbol |-> a.symbol, name |-> a.name, ok |-> FALSE]
    /\ wFailed' = TRUE
    /\ UNCHANGED <<stocks, clock>>
    /\ UpdatedLoopNext

\* handleSymbolAdded: UpsertStockBasic succeeds, the handler returns nil
WAddedUpsert ==
    /\ wPc = "added"
    /\ LET a == handleSymbolAdded_Args(UnmarshalWatchlist(wMsg).event)
       IN  /\ \E now \in Readings :
                /\ clock' = now
                /\ stocks' = UpsertStockBasic(stocks, a.symbol, a.name, now)
           /\ wCall' = [made |-> TRUE, symbol |-> a.symbol, name |-> a.name, ok |-> TRUE]
    /\ wResult' = "nil"
    /\ wPc' = "idle"
    /\ UNCHANGED <<wMsg, wIdx, posVars, wBus, wPrev, wFailed>>

\* a single-symbol handler that logs the store's error and returns nil
WAddedUpsertFails_ReturnsNil ==
    /\ wPc = "added"
    /\ LET a == handleSymbolAdded_Args(UnmarshalWatchlist(wMsg).event)
       IN  wCall' = [made |-> TRUE, symbol |-> a.symbol, name |-> a.name, ok |-> FALSE]
    /\ wResult' = "nil"
    /\ wPc' = "idle"
    /\ wFailed' = TRUE
    /\ UNCHANGED <<stocks, clock, wMsg, wIdx, posVars, wBus, wPrev>>

\* handleSymbolAdded: UpsertStockBasic fails, the handler returns the error
WAddedUpsertFails ==
    /\ wPc = "added"
    /\ LET a == handleSymbolAdded_Args(UnmarshalWatchlist(wMsg).event)
       IN  wCall' = [made |-> TRUE, symbol |-> a.symbol, name |-> a.name, ok |-> FALSE]
    /\ wResult' = "failed to upsert stock"
    /\ wPc' = "idle"
    /\ wFailed' = TRUE
    /\ UNCHANGED <<stocks, clock, wMsg, wIdx, posVars, wBus, wPrev>>

(***************************************************************************)
(* The topics, and the kafka.Reader each consumer reads its topic with.    *)
(* Both readers are built with a GroupID and CommitInterval = 1 s: a       *)
(* ReadMessage returns the next message of the partition and hands its     *)
(* offset to the reader's commit loop, which commits what it was handed    *)
(* once per interval. Offsets count from 0 at the reader's start offset.   *)
(***************************************************************************)
\* a row whose quantity parses to zero
ZeroQuantityData ==
    [Symbol |-> MSFT, Quantity |-> <<"0",".","0">>,
     AverageBuyPrice |-> <<"1","2">>, Equity |-> <<"5">>,
     PercentChange |-> <<"0">>]

\* a row whose equity / quantity has no finite decimal expansion
ThirdsData ==
    [Symbol |-> TSLA, Quantity |-> <<"3">>,
     AverageBuyPrice |-> <<"3","0">>, Equity |-> <<"1","0","0">>,
     PercentChange |-> <<"1",".","5">>]

\* a row whose equity does not parse
NoEquityData ==
    [Symbol |-> GOOG, Quantity |-> <<"4">>,
     AverageBuyPrice |-> <<"2","5">>, Equity |-> <<>>,
     PercentChange |-> <<"2">>]

\* a row whose quantity and average_buy_price are below zero
ShortData ==
    [Symbol |-> GOOG, Quantity |-> <<"-","5">>,
     AverageBuyPrice |-> <<"-","2","0">>, Equity |-> <<"-","1","0","0">>,
     PercentChange |-> <<"0">>]

\* a row whose symbol is in lower case
LowerSymbolData ==
    [Symbol |-> AaplLower, Quantity |-> <<"2">>,
     AverageBuyPrice |-> <<"1","0","0">>, Equity |-> <<"2","1","0">>,
     PercentChange |-> <<"5">>]

\* a row whose percent_change does not parse
NoPercentData ==
    [Symbol |-> MSFT, Quantity |-> <<"2">>,
     AverageBuyPrice |-> <<"1","0">>, Equity |-> <<"3","0">>,
     PercentChange |-> <<"n","/","a">>]

TopicSnapshots ==
    {<<AaplData>>, <<ZeroQuantityData, ThirdsData>>,
     <<NoEquityData, NoPercentData>>,
     <<ShortData, LowerSymbolData>>}

PosTopicMessages ==
    {GarbageValue} \cup {SnapshotValue(ps) : ps \in TopicSnapshots}

WlTopicMessages ==
    {WGarbageValue,
     WValue(ADDED, [NoData EXCEPT !.Symbol = AaplLower, !.Name = AppleInc]),
     WValue(UPDATED, [NoData EXCEPT !.AddedSymbols = <<MsftMixed>>]),
     S2Value}

\* The loop of Start looks at ctx.Done() and then calls ReadMessage(ctx). A
\* consumer that is between messages has passed the check and may be given a
\* message as long as the context is not cancelled, and also when it was
\* cancelled after the check: then it has read nothing since the cancellation.
PInReadMessage ==
    ~cancel.fired \/ (cancel.p = "idle" /\ pOffset = cancel.pOff)

WInReadMessage ==
    ~cancel.fired \/ (cancel.w = "idle" /\ wOffset = cancel.wOff)

\* a Start loop that reads on whatever the context says
PTopicReadMessage_IgnoresCancel ==
    /\ pPc = "idle"
    /\ pOffset < Len(pLog)
    /\ pMsg' = pLog[pOffset + 1]
    /\ pOffset' = pOffset + 1
    /\ pPc' = "process"
    /\ pResult' = "none"
    /\ pConverted' = <<>>
    /\ pIdx' = 0
    /\ snapPrev' = NoSnap
    /\ observed' = NoRead
    /\ UNCHANGED <<positions, tx, clock, wlVars, pLog, pCommitted, pClosed, cancel, host>>

\* a Start loop that returns when processMessage has returned an error
PTopicReadMessage_StopsOnError ==
    /\ pPc = "idle"
    /\ PInReadMessage
    /\ pResult \in {"none", "nil"}
    /\ pOffset < Len(pLog)
    /\ pMsg' = pLog[pOffset + 1]
    /\ pOffset' = pOffset + 1
    /\ pPc' = "process"
    /\ pResult' = "none"
    /\ pConverted' = <<>>
    /\ pIdx' = 0
    /\ snapPrev' = NoSnap
    /\ observed' = NoRead
    /\ UNCHANGED <<positions, tx, clock, wlVars, pLog, pCommitted, pClosed, cancel, host>>

\* PositionsConsumer.Start: c.reader.ReadMessage(ctx) returns the message at
\* the reader's offset, whatever processMessage returned for the one before
PTopicReadMessage ==
    /\ pPc = "idle"
    /\ PInReadMessage
    /\ pOffset < Len(pLog)
    /\ pMsg' = pLog[pOffset + 1]
    /\ pOffset' = pOffset + 1
    /\ pPc' = "process"
    /\ pResult' = "none"
    /\ pConverted' = <<>>
    /\ pIdx' = 0
    /\ snapPrev' = NoSnap
    /\ observed' = NoRead
    /\ UNCHANGED <<positions, tx, clock, wlVars, pLog, pCommitted, pClosed, cancel, host>>

\* the positions reader's commit loop: the offsets of the messages
\* ReadMessage has returned are committed for the group
PCommitOffsets ==
    /\ ~pClosed
    /\ host.pc # "exited"
    /\ pCommitted < pOffset
    /\ pCommitted' = pOffset
    /\ UNCHANGED <<positions, tx, pPc, pMsg, pConverted, pIdx, pResult,
                   snapPrev, observed, clock, wlVars, pLog, pOffset, pClosed,
                   cancel, host>>

\* WatchlistConsumer.Start: c.reader.ReadMessage(ctx)
WTopicReadMessage ==
    /\ wPc = "idle"
    /\ WInReadMessage
    /\ wOffset < Len(wLog)
    /\ wMsg' = wLog[wOffset + 1]
    /\ wOffset' = wOffset + 1
    /\ wPc' = "process"
    /\ wResult' = "none"
    /\ wIdx' = 0
    /\ wCall' = NoCall
    /\ wPrev' = [table |-> stocks, failed |-> wFailed]
    /\ wFailed' = FALSE
    /\ UNCHANGED <<stocks, clock, posVars, wLog, wCommitted, wClosed>>

\* the watchlist reader's commit loop
WCommitOffsets ==
    /\ ~wClosed
    /\ wCommitted < wOffset
    /\ wCommitted' = wOffset
    /\ UNCHANGED <<stocks, wPc, wMsg, wIdx, wCall, wResult, wPrev, wFailed,
                   clock, posVars, wLog, wOffset, wClosed>>

(***************************************************************************)
(* Shutdown: main cancels the context, the Start loops return              *)
(***************************************************************************)
\* main, on SIGINT or SIGTERM: cancel()
Cancel ==
    /\ host.pc = "serving"
    /\ ~cancel.fired
    /\ cancel' = [fired |-> TRUE, p |-> pPc, w |-> wPc, wMade |-> wCall.made,
                  pOff |-> pOffset, wOff |-> wOffset]
    /\ host' = [host EXCEPT !.pc = "cancelled"]
    /\ UNCHANGED <<positions, tx, pPc, pMsg, pConverted, pIdx, pResult,
                   snapPrev, observed, clock, wlVars, pLog, pOffset,
                   pCommitted, pClosed>>

\* PositionsConsumer.Start at the top of its loop: case <-ctx.Done():
\* return c.reader.Close(). Close stops the reader's commit loop, which
\* commits the offsets handed to it before it ends.
PStartShutsDown ==
    /\ pPc = "idle"
    /\ cancel.fired
    /\ pPc' = "returned"
    /\ pClosed' = TRUE
    /\ pCommitted' = pOffset
    /\ host' = [host EXCEPT !.pCloses = @ + 1]
    /\ UNCHANGED <<positions, tx, pMsg, pConverted, pIdx, pResult, snapPrev,
                   observed, clock, wlVars, pLog, pOffset, cancel>>

\* PositionsConsumer.Start waiting in c.reader.ReadMessage(ctx) when the
\* context is cancelled: err != nil and ctx.Err() != nil, return nil
PReadMessageCancelled ==
    /\ pPc = "idle"
    /\ cancel.fired
    /\ PInReadMessage
    /\ pPc' = "returned"
    /\ UNCHANGED <<positions, tx, pMsg, pConverted, pIdx, pResult, snapPrev,
                   observed, clock, wlVars, pBus>>

\* main, after cancel(), when srv.Shutdown has returned nil:
\* positionsConsumer.Close(), whatever Start has done by then
MainClosesPositionsConsumer ==
    /\ host.pc = "cancelled"
    /\ pClosed' = TRUE
    /\ pCommitted' = IF pClosed THEN pCommitted ELSE pOffset
    /\ host' = [host EXCEPT !.pc = "closed", !.pCloses = @ + 1]
    /\ UNCHANGED <<positions, tx, pPc, pMsg, pConverted, pIdx, pResult,
                   snapPrev, observed, clock, wlVars, pLog, pOffset, cancel>>

\* WatchlistConsumer.Start at the top of its loop: return c.reader.Close()
WStartShutsDown ==
    /\ wPc = "idle"
    /\ cancel.fired
    /\ wPc' = "returned"
    /\ wClosed' = TRUE
    /\ wCommitted' = wOffset
    /\ host' = [host EXCEPT !.wCloses = @ + 1]
    /\ UNCHANGED <<stocks, wMsg, wIdx, wCall, wResult, wPrev, wFailed, clock,
                   positions, tx, pPc, pMsg, pConverted, pIdx, pResult,
                   snapPrev, observed, pLog, pOffset, pCommitted, pClosed,
                   cancel, wLog, wOffset>>

\* WatchlistConsumer.Start waiting in ReadMessage when the context is
\* cancelled: return nil
WReadMessageCancelled ==
    /\ wPc = "idle"
    /\ cancel.fired
    /\ WInReadMessage
    /\ wPc' = "returned"
    /\ UNCHANGED <<stocks, wMsg, wIdx, wCall, wResult, wPrev, wFailed, clock,
                   posVars, wBus>>

\* main up to the wait on the quit channel: it builds the consumer of the
\* trades topic and the PositionsConsumer and starts each Start in a
\* goroutine with ctx; it builds no WatchlistConsumer
MainStartsConsumers ==
    /\ host.pc = "start"
    /\ pPc = "unstarted"
    /\ pPc' = "idle"
    /\ host' = [host EXCEPT !.pc = "serving"]
    /\ UNCHANGED <<positions, tx, pMsg, pConverted, pIdx, pResult, snapPrev,
                   observed, clock, wlVars, pLog, pOffset, pCommitted,
                   pClosed, cancel>>

\* the process ends: a goroutine of Start that has not returned ends where
\* it stands
ProcessExits ==
    /\ host' = [host EXCEPT !.pc = "exited", !.pAt = pPc]
    /\ pPc' = IF pPc = "returned" THEN pPc ELSE "killed"
    /\ UNCHANGED <<positions, tx, pMsg, pConverted, pIdx, pResult, snapPrev,
                   observed, clock, wlVars, pLog, pOffset, pCommitted,
                   pClosed, cancel>>

\* main, after cancel(): srv.Shutdown returns an error (its 30 s are over)
\* and log.Fatalf ends the process
MainShutdownFails ==
    /\ host.pc = "cancelled"
    /\ ProcessExits

\* main, after the Close calls: "Server stopped", return. main waits for no
\* goroutine.
MainReturns ==
    /\ host.pc = "closed"
    /\ ProcessExits

Init ==
    /\ clock = 0
    /\ positions \in PriorTables
    /\ tx = NoTx
    /\ pPc = "idle"
    /\ pMsg = NoMsg
    /\ pConverted = <<>>
    /\ pIdx = 0
    /\ pResult = "none"
    /\ snapPrev = NoSnap
    /\ observed = NoRead
    /\ stocks = <<>>
    /\ wPc = "idle"
    /\ wMsg = NoWMsg
    /\ wIdx = 0
    /\ wCall = NoCall
    /\ wResult = "none"
    /\ pLog = <<>>
    /\ pOffset = 0
    /\ pCommitted = 0
    /\ wLog = <<>>
    /\ wOffset = 0
    /\ wCommitted = 0
    /\ wPrev = NoPrev
    /\ wFailed = FALSE
    /\ cancel = NoCancel
    /\ pClosed = FALSE
    /\ wClosed = FALSE
    /\ host = Serving

Next ==
    \/ PReadMessage(PosMessages(PositionRows))
    \/ PProcessMessage
    \/ TxBegin
    \/ TxBeginFails
    \/ TxDelete
    \/ TxDeleteFails
    \/ TxInsert
    \/ TxInsertFails
    \/ TxCommit
    \/ TxCommitFails
    \/ GetAllPositions

Spec == Init /\ [][Next]_vars

WatchlistNext ==
    \/ WReadMessage(WatchlistMessages)
    \/ WProcessMessage
    \/ WUpdatedUpsert
    \/ WUpdatedUpsertFails
    \/ WAddedUpsert
    \/ WAddedUpsertFails

WatchlistInit == Init /\ positions = <<>>

\* both consumers started, each on a topic that holds its messages
TopicInit ==
    /\ clock = 0
    /\ positions \in PriorTables
    /\ tx = NoTx
    /\ pPc = "idle"
    /\ pMsg = NoMsg
    /\ pConverted = <<>>
    /\ pIdx = 0
    /\ pResult = "none"
    /\ snapPrev = NoSnap
    /\ observed = NoRead
    /\ stocks = <<>>
    /\ wPc = "idle"
    /\ wMsg = NoWMsg
    /\ wIdx = 0
    /\ wCall = NoCall
    /\ wResult = "none"
    /\ pLog \in SeqsUpTo(PosTopicMessages, MaxLog)
    /\ wLog \in SeqsUpTo(WlTopicMessages, MaxLog)
    /\ Len(pLog) + Len(wLog) <= MaxLog
    /\ pOffset = 0
    /\ pCommitted = 0
    /\ wOffset = 0
    /\ wCommitted = 0
    /\ wPrev = NoPrev
    /\ wFailed = FALSE
    /\ cancel = NoCancel
    /\ pClosed = FALSE
    /\ wClosed = FALSE
    /\ host = Serving

\* the calls PositionsConsumer.Start makes that leave the process: the read
\* off the topic and the statements of ReplaceAllPositions
PositionsConsumerCalls ==
    \/ PTopicReadMessage
    \/ TxBegin
    \/ TxBeginFails
    \/ TxDelete
    \/ TxDeleteFails
    \/ TxInsert
    \/ TxInsertFails
    \/ TxCommit
    \/ TxCommitFails

\* the goroutine of PositionsConsumer.Start
PositionsConsumerNext ==
    \/ PProcessMessage
    \/ PositionsConsumerCalls

\* the goroutine of WatchlistConsumer.Start
WatchlistConsumerNext ==
    \/ WTopicReadMessage
    \/ WProcessMessage
    \/ WUpdatedUpsert
    \/ WUpdatedUpsertFails
    \/ WAddedUpsert
    \/ WAddedUpsertFails

TopicNext ==
    \/ PositionsConsumerNext
    \/ PCommitOffsets
    \/ WatchlistConsumerNext
    \/ WCommitOffsets

TopicSpec == TopicInit /\ [][TopicNext]_vars

\* every goroutine that can take a step is scheduled, and every call to the
\* reader or the store returns. PProcessMessage is enabled exactly when
\* pPc = "process" and every step of it leaves that point, so its weak
\* fairness is the second conjunct.
TopicFairSpec ==
    /\ TopicSpec
    /\ WF_vars(PositionsConsumerCalls)
    /\ []<>(pPc # "process")
    /\ WF_vars(PCommitOffsets)
    /\ WF_vars(WatchlistConsumerNext)
    /\ WF_vars(WCommitOffsets)

WatchlistSpec == WatchlistInit /\ [][WatchlistNext]_vars

\* S1's event: aapl, Goog and MSFT added, stocks[] naming AAPL and GOOG
GoogMixed   == <<"G","o","o","g">>
AlphabetInc == <<"A","l","p","h","a","b","e","t"," ","I","n","c",".">>

S1Value ==
    WValue(UPDATED,
           [NoData EXCEPT
                !.AddedSymbols = <<AaplLower, GoogMixed, MSFT>>,
                !.Stocks = <<[Symbol |-> AAPL, Name |-> AppleInc],
                             [Symbol |-> GOOG, Name |-> AlphabetInc]>>])

\* the stocks table before the event arrives: empty, or the row AAPL with no
\* name, with the symbol as its name, or with a name of its own
PriorStocks ==
    {<<>>} \cup {[k \in {AAPL} |-> [name |-> n, last_updated |-> 0]] :
                    n \in {<<>>, AAPL, AppleCo}}

\* the watchlist consumer on a topic that delivers one WATCHLIST_UPDATED
\* event again and again
RedeliveryInit ==
    /\ clock = 0
    /\ positions = <<>>
    /\ tx = NoTx
    /\ pPc = "idle"
    /\ pMsg = NoMsg
    /\ pConverted = <<>>
    /\ pIdx = 0
    /\ pResult = "none"
    /\ snapPrev = NoSnap
    /\ observed = NoRead
    /\ stocks \in PriorStocks
    /\ wPc = "idle"
    /\ wMsg = NoWMsg
    /\ wIdx = 0
    /\ wCall = NoCall
    /\ wResult = "none"
    /\ pLog = <<>>
    /\ pOffset = 0
    /\ pCommitted = 0
    /\ wLog \in {[i \in 1..MaxLog |-> v] : v \in UpdatedValues \cup {S1Value}}
    /\ wOffset = 0
    /\ wCommitted = 0
    /\ wPrev = NoPrev
    /\ wFailed = FALSE
    /\ cancel = NoCancel
    /\ pClosed = FALSE
    /\ wClosed = FALSE
    /\ host = Serving

RedeliveryNext ==
    \/ WTopicReadMessage
    \/ WProcessMessage
    \/ WUpdatedUpsert
    \/ WUpdatedUpsertFails
    \/ WCommitOffsets

RedeliverySpec == RedeliveryInit /\ [][RedeliveryNext]_vars

\* both consumers on their topics, and main shutting the process down
ShutdownNext ==
    \/ TopicNext
    \/ Cancel
    \/ PStartShutsDown
    \/ PReadMessageCancelled
    \/ MainClosesPositionsConsumer
    \/ WStartShutsDown
    \/ WReadMessageCancelled

ShutdownSpec == TopicInit /\ [][ShutdownNext]_vars

\* the process as main runs it: the topics hold their messages and main has
\* started nothing yet
HostInit ==
    /\ clock = 0
    /\ positions \in PriorTables
    /\ tx = NoTx
    /\ pPc = "unstarted"
    /\ pMsg = NoMsg
    /\ pConverted = <<>>
    /\ pIdx = 0
    /\ pResult = "none"
    /\ snapPrev = NoSnap
    /\ observed = NoRead
    /\ stocks = <<>>
    /\ wPc = "unstarted"
    /\ wMsg = NoWMsg
    /\ wIdx = 0
    /\ wCall = NoCall
    /\ wResult = "none"
    /\ pLog \in SeqsUpTo(PosTopicMessages, MaxLog)
    /\ wLog \in SeqsUpTo(WlTopicMessages, MaxLog)
    /\ Len(pLog) + Len(wLog) <= MaxLog
    /\ pOffset = 0
    /\ pCommitted = 0
    /\ wOffset = 0
    /\ wCommitted = 0
    /\ wPrev = NoPrev
    /\ wFailed = FALSE
    /\ cancel = NoCancel
    /\ pClosed = FALSE
    /\ wClosed = FALSE
    /\ host = Starting

\* main and the goroutines it starts
HostNext ==
    \/ MainStartsConsumers
    \/ PositionsConsumerNext
    \/ PCommitOffsets
    \/ Cancel
    \/ PStartShutsDown
    \/ PReadMessageCancelled
    \/ MainShutdownFails
    \/ MainClosesPositionsConsumer
    \/ MainReturns

HostSpec == HostInit /\ [][HostNext]_vars

(***************************************************************************)
(* Properties of ReplaceAllPositions and of the positions consumer         *)
(***************************************************************************)
\* processMessage has returned for pMsg after calling ReplaceAllPositions
ReplaceSucceeded == pPc = "idle" /\ snapPrev.called /\ pResult = "nil"

ReplaceFailed ==
    pPc = "idle" /\ snapPrev.called /\ pResult = "failed to replace positions"

\* row is the table row of position p: every column the insert is given
RowIsOf(row, p) ==
    /\ row.symbol = p.Symbol
    /\ Cmp(row.quantity, p.Quantity) = 0
    /\ Cmp(row.entry_price, p.EntryPrice) = 0
    /\ row.entry_date = p.EntryDate
    /\ Cmp(row.current_price, p.CurrentPrice) = 0
    /\ Cmp(row.unrealized_pnl_pct, p.UnrealizedPnlPct) = 0
    /\ row.days_held = p.DaysHeld

\* rows are exactly the rows of the list ps, one row for each element
RowsAreOf(rows, ps) ==
    /\ Len(rows) = Len(ps)
    /\ \A i \in DOMAIN rows : RowIsOf(rows[i], ps[i])

\* C1: when ReplaceAllPositions(P) has returned success, the positions table
\* holds exactly the rows of P, one for each element, and no row of the table
\* it replaced, whatever the table held and whatever P is (the empty list too).
C1_ReplaceLeavesExactlyInput ==
    ReplaceSucceeded => RowsAreOf(positions, pConverted)

C1_Witness ==
    /\ ReplaceSucceeded
    /\ snapPrev.rows # <<>>
    /\ Len(pConverted) = 2
    /\ positions # snapPrev.rows

\* C2: when ReplaceAllPositions has returned an error, at whichever step
\* (begin, delete, an insert, commit), the positions table is what it was
\* before the call.
C2_FailedReplaceLeavesTable ==
    ReplaceFailed => positions = snapPrev.rows

\* the call failed after the delete and at least one insert had been made
C2_Witness ==
    /\ ReplaceFailed
    /\ pIdx >= 2
    /\ snapPrev.rows # <<>>
    /\ positions = snapPrev.rows

\* C3: a query made at any moment of a ReplaceAllPositions call returns
\* either the whole table as it was before the call or, once the call has
\* committed, the whole new snapshot; never the emptied table or a part of
\* the new rows.
C3_ReaderSeesWholeSnapshot ==
    observed.read =>
        \/ observed.rows = snapPrev.rows
        \/ pResult = "nil" /\ RowsAreOf(observed.rows, pConverted)

\* a query answered while the transaction had deleted and inserted one of two
C3_Witness ==
    /\ observed.read
    /\ pPc = "insert"
    /\ pIdx = 2
    /\ tx.rows # <<>>
    /\ snapPrev.rows # <<>>
    /\ observed.rows = snapPrev.rows

\* the rows of the message whose quantity and average_buy_price both parse,
\* as (symbol, quantity, entry_price)
ParsedTuples(value) ==
    {<<pd.Symbol, Numeric(NewFromString(pd.Quantity).d),
       Numeric(NewFromString(pd.AverageBuyPrice).d)>> :
        pd \in {x \in Range(value.Positions) :
                    /\ ~NewFromString(x.Quantity).err
                    /\ ~NewFromString(x.AverageBuyPrice).err}}

TableTuples(rows) ==
    {<<r.symbol, r.quantity, r.entry_price>> : r \in Range(rows)}

SnapshotHandled ==
    ReplaceSucceeded /\ pMsg.json /\ pMsg.EventType = SNAPSHOT

\* C9: after a POSITIONS_SNAPSHOT message has been handled successfully, the
\* (symbol, quantity, entry_price) tuples of the positions table are exactly
\* those of the message's rows whose quantity and average_buy_price parse.
C9_TableEqualsParsedTuples ==
    SnapshotHandled => TableTuples(positions) = ParsedTuples(pMsg)

\* a snapshot of one unparseable and one good row, handled
C9_Witness ==
    /\ SnapshotHandled
    /\ pMsg.Positions = <<BadQuantityData, AaplData>>
    /\ Len(positions) = 1

Dec(n) == [value |-> n, exp |-> 0]

\* S5's two snapshots
S5First == SnapshotValue(<<AaplData>>)

S5Second == SnapshotValue(<<GoogData>>)

S5Expected ==
    /\ Len(positions) = 1
    /\ positions[1].symbol = GOOG
    /\ positions[1].quantity = Dec(5)
    /\ positions[1].entry_price = Dec(2800)
    /\ positions[1].current_price = Dec(2820)
    /\ \A i \in DOMAIN positions : positions[i].symbol # AAPL

\* C10: the table changes only when a snapshot commits, and then to that
\* snapshot's rows alone; a replace that fails leaves the table as it was. So
\* after any sequence of snapshots the table holds the last committed one. In
\* S5, once the GOOG snapshot is handled the table is the one row GOOG with
\* quantity 5, entry_price 2800, current_price 2820, whatever came before.
C10_LastCommittedSnapshotWins ==
    /\ [][/\ positions' # positions =>
                /\ pPc = "commit"
                /\ pResult' = "nil"
                /\ RowsAreOf(positions', pConverted')
          /\ pResult' = "failed to replace positions" => positions' = positions
         ]_vars
    /\ [](SnapshotHandled /\ pMsg = S5Second => S5Expected)

\* the GOOG snapshot handled on the table the AAPL snapshot had left
C10_Witness ==
    /\ SnapshotHandled
    /\ pMsg = S5Second
    /\ Len(snapPrev.rows) = 1
    /\ snapPrev.rows[1].symbol = AAPL
    /\ snapPrev.rows[1].quantity = Dec(10)
    /\ snapPrev.rows[1].current_price = Dec(160)
    /\ S5Expected



(***************************************************************************)
(* Properties of the watchlist consumer and of UpsertStockBasic            *)
(***************************************************************************)
\* this step is a store call of the consumer that succeeded
UpsertSucceeds == wPc \in {"added", "updated"} /\ wCall'.made /\ wCall'.ok

\* the name a row holds after a successful upsert of (symbol, name)
MergedName(table, symbol, name) ==
    IF symbol \in DOMAIN table /\ table[symbol].name \notin {<<>>, symbol}
    THEN table[symbol].name
    ELSE name

\* C4: an upsert changes the name of an existing row only when the stored
\* name is empty or equal to the symbol, and then to the new name; a new row
\* takes the new name. So ("AAPL","AAPL") then ("AAPL","Apple Inc.") leaves
\* "Apple Inc.", and so does the reverse order.
C4_PlaceholderNameProtection ==
    [][UpsertSucceeds =>
        /\ \A k \in DOMAIN stocks :
            /\ k \in DOMAIN stocks'
            /\ stocks'[k].name # stocks[k].name =>
                /\ stocks[k].name \in {<<>>, k}
                /\ k = wCall'.symbol
                /\ stocks'[k].name = wCall'.name
        /\ wCall'.symbol \notin DOMAIN stocks =>
                stocks'[wCall'.symbol].name = wCall'.name
        /\ (/\ wCall'.symbol = AAPL /\ wCall'.name = AppleInc
            /\ AAPL \in DOMAIN stocks /\ stocks[AAPL].name = AAPL)
                => stocks'[AAPL].name = AppleInc
        /\ (/\ wCall'.symbol = AAPL /\ wCall'.name = AAPL
            /\ AAPL \in DOMAIN stocks /\ stocks[AAPL].name = AppleInc)
                => stocks'[AAPL].name = AppleInc
      ]_vars

\* ("AAPL","AAPL") has been upserted onto the row named "Apple Inc."
C4_Witness ==
    /\ wCall.made /\ wCall.ok
    /\ wCall.symbol = AAPL /\ wCall.name = AAPL
    /\ stocks[AAPL].name = AppleInc

SymbolAddedHandled ==
    wPc = "idle" /\ wMsg.json /\ wMsg.EventType = ADDED /\ wResult = "nil"

\* C5 as stated: after a WATCHLIST_SYMBOL_ADDED (s, n) is handled
\* successfully the row UPPER(s) exists and its name is n, or UPPER(s) if n
\* is empty, whatever the table held.
C5_Stated_NameIsEventName ==
    SymbolAddedHandled =>
        LET key == ToUpper(wMsg.Data.Symbol)
        IN  /\ StockExists(stocks, key)
            /\ stocks[key].name =
                    IF wMsg.Data.Name = <<>> THEN key ELSE wMsg.Data.Name

\* C5, amended: after a WATCHLIST_SYMBOL_ADDED (s, n) is handled successfully
\* the row UPPER(s) exists; its name is n (UPPER(s) if n is empty) when the
\* row was absent or its stored name was empty or equal to the symbol, and is
\* the stored name, unchanged, when the row held any other name.
C5_NameIsEventNameUnlessProtected ==
    [][(wPc = "added" /\ wResult' = "nil") =>
        LET key == ToUpper(wMsg.Data.Symbol)
            n   == IF wMsg.Data.Name = <<>> THEN key ELSE wMsg.Data.Name
        IN  /\ StockExists(stocks', key)
            /\ stocks'[key].name = MergedName(stocks, key, n)
      ]_vars

\* ("aapl", "Apple Co") handled on the row named "Apple Inc.": the name stays
C5_Witness ==
    /\ SymbolAddedHandled
    /\ wMsg.Data.Symbol = AaplLower
    /\ wMsg.Data.Name = AppleCo
    /\ StockExists(stocks, AAPL)
    /\ stocks[AAPL].name = AppleInc

HasLowerCase(s) == \E i \in DOMAIN s : s[i] \in Range(LowerLetters)

\* the symbol, as the event carries it, of the consumer's last store call
RawSymbolOfCall ==
    IF wMsg.EventType = ADDED THEN wMsg.Data.Symbol
    ELSE wMsg.Data.AddedSymbols[wIdx - 1]

\* C6: every upsert of the consumer, for WATCHLIST_SYMBOL_ADDED and for each
\* added symbol of WATCHLIST_UPDATED, is given the upper-cased form of the
\* event's symbol, and no row of the table it fills has a key with a
\* lower-case letter.
C6_UpsertsTargetUpperCasedSymbol ==
    /\ wCall.made =>
        /\ wCall.symbol = ToUpper(RawSymbolOfCall)
        /\ ~HasLowerCase(wCall.symbol)
    /\ \A k \in DOMAIN stocks : ~HasLowerCase(k)

\* a batch adding "aapl" then "AAPL": both upserts went to the one row AAPL
C6_Witness ==
    /\ wPc = "idle" /\ wResult = "nil"
    /\ wMsg.EventType = UPDATED
    /\ wMsg.Data.AddedSymbols = <<AaplLower, AAPL>>
    /\ wCall.ok
    /\ DOMAIN stocks = {AAPL}

\* C7: no step of the watchlist consumer, for any event, takes a symbol out
\* of the stocks table.
C7_StocksNeverShrink ==
    [][\A k \in DOMAIN stocks : k \in DOMAIN stocks']_vars

\* a batch naming AAPL in removed_symbols has been handled; AAPL is there
C7_Witness ==
    /\ wPc = "idle" /\ wResult = "nil"
    /\ wMsg.EventType = UPDATED
    /\ wMsg.Data.RemovedSymbols = <<AAPL>>
    /\ AAPL \in DOMAIN stocks

\* C8: handling a WATCHLIST_SYMBOL_REMOVED event returns nil, issues no store
\* call and leaves every row of the stocks table, last_updated included, as
\* it was.
C8_SymbolRemovedChangesNothing ==
    [][(wPc = "process" /\ wMsg.json /\ wMsg.EventType = REMOVED) =>
        /\ stocks' = stocks
        /\ wCall' = NoCall
        /\ wResult' = "nil"
        /\ wPc' = "idle"
      ]_vars

\* the removal of a symbol that has a row has been handled
C8_Witness ==
    /\ wPc = "idle" /\ wResult = "nil"
    /\ wMsg.EventType = REMOVED
    /\ ToUpper(wMsg.Data.Symbol) \in DOMAIN stocks


(***************************************************************************)
(* Error handling and frame of the watchlist handlers                      *)
(***************************************************************************)
\* processMessage has returned for a WATCHLIST_UPDATED event
UpdatedHandled ==
    wPc = "idle" /\ wMsg.json /\ wMsg.EventType = UPDATED /\ wResult # "none"

\* C11: in a WATCHLIST_UPDATED batch every turn of the loop issues the upsert
\* of its added symbol; a turn whose upsert the store rejects changes no row
\* and is followed by the next symbol's turn, or by the return of nil after
\* the last; the handler returns nil whatever upserts failed.
C11_BatchSurvivesUpsertError ==
    /\ [][wPc = "updated" =>
            /\ wCall'.made
            /\ wCall'.symbol = ToUpper(wMsg.Data.AddedSymbols[wIdx])
            /\ IF wIdx < Len(wMsg.Data.AddedSymbols)
               THEN wPc' = "updated" /\ wIdx' = wIdx + 1 /\ wResult' = "none"
               ELSE wPc' = "idle" /\ wResult' = "nil"
            /\ ~wCall'.ok => stocks' = stocks
         ]_vars
    /\ [](UpdatedHandled => wResult = "nil")

\* S4: a batch adding two symbols whose first upsert was rejected has been
\* handled with nil, and the table holds the second symbol alone
C11_Witness ==
    /\ UpdatedHandled
    /\ wResult = "nil"
    /\ wMsg.Data.AddedSymbols = <<AaplLower, MsftMixed>>
    /\ wCall.ok
    /\ DOMAIN stocks = {MSFT}

\* C12: when the store rejects the upsert of a WATCHLIST_SYMBOL_ADDED event,
\* processMessage returns the error "failed to upsert stock ..." and no row of
\* the stocks table changes; nil is returned only after an upsert that
\* succeeded.
C12_SymbolAddedReturnsStoreError ==
    /\ [][(wPc = "added" /\ wCall'.made /\ ~wCall'.ok) =>
            /\ wResult' = "failed to upsert stock"
            /\ wPc' = "idle"
            /\ stocks' = stocks
         ]_vars
    /\ []((wPc = "idle" /\ wMsg.json /\ wMsg.EventType = ADDED
                /\ wResult = "nil") => wCall.made /\ wCall.ok)

\* the upsert for ("Msft", "Apple Co") was rejected: the error is returned and
\* the table, which holds another row, has no row MSFT
C12_Witness ==
    /\ wPc = "idle" /\ wMsg.json /\ wMsg.EventType = ADDED
    /\ wMsg.Data.Symbol = MsftMixed
    /\ wCall.made /\ ~wCall.ok
    /\ wResult = "failed to upsert stock"
    /\ DOMAIN stocks = {AAPL}

KnownTypes == {UPDATED, ADDED, REMOVED}

\* C16: a decodable message whose event_type is none of the three known types
\* is handled in one step that returns nil, issues no store call and leaves
\* the stocks table as it was.
C16_UnknownTypeIgnored ==
    [][(wPc = "process" /\ wMsg.json /\ wMsg.EventType \notin KnownTypes) =>
        /\ wResult' = "nil"
        /\ wPc' = "idle"
        /\ wCall' = NoCall
        /\ stocks' = stocks
      ]_vars

\* a message of an unknown type has been handled on a table that has rows
C16_Witness ==
    /\ wPc = "idle" /\ wMsg.json
    /\ wMsg.EventType \notin KnownTypes
    /\ wResult = "nil"
    /\ wCall = NoCall
    /\ DOMAIN stocks = {AAPL, MSFT}

\* C17: a WATCHLIST_UPDATED event with empty added_symbols is handled in one
\* step that issues no store call and leaves every row of the stocks table as
\* it was, whatever removed_symbols and stocks[] hold.
C17_EmptyAddedSymbolsIsNoOp ==
    [][(/\ wPc = "process" /\ wMsg.json /\ wMsg.EventType = UPDATED
        /\ wMsg.Data.AddedSymbols = <<>>) =>
        /\ wResult' = "nil"
        /\ wPc' = "idle"
        /\ wCall' = NoCall
        /\ stocks' = stocks
      ]_vars

\* such an event, naming AAPL in removed_symbols and in stocks[], has been
\* handled; the row AAPL keeps its placeholder name
C17_Witness ==
    /\ UpdatedHandled
    /\ wMsg.Data.AddedSymbols = <<>>
    /\ wMsg.Data.RemovedSymbols = <<AAPL>>
    /\ wMsg.Data.Stocks = <<UnnamedEntry, AaplEntry>>
    /\ wCall = NoCall
    /\ AAPL \in DOMAIN stocks
    /\ stocks[AAPL].name = AAPL


(***************************************************************************)
(* Properties of the Start loops: offsets, malformed messages              *)
(***************************************************************************)
\* processMessage has returned a store error for the message last read
PStoreFailed == pPc = "idle" /\ pResult = "failed to replace positions"

WStoreFailed == wPc = "idle" /\ wResult = "failed to upsert stock"

\* C13 as stated: when processMessage has failed on a store error
\* (ReplaceAllPositions for a snapshot, the upsert for a
\* WATCHLIST_SYMBOL_ADDED), the offset committed for the group stays at or
\* before that message, so that the message is delivered again.
C13_Stated_FailedMessageNotCommitted ==
    /\ PStoreFailed => pCommitted < pOffset
    /\ WStoreFailed => wCommitted < wOffset

\* the decode step of processMessage has returned its error for pMsg / wMsg
PDecodeFailed ==
    pPc = "idle" /\ pResult = "failed to unmarshal positions event"

WDecodeFailed ==
    wPc = "idle" /\ wResult = "failed to unmarshal watchlist event"

\* C14: for a message that is not decodable JSON, processMessage of either
\* consumer returns the decode error in one step that calls neither
\* ReplaceAllPositions nor UpsertStockBasic and leaves both tables as they
\* were.
C14_MalformedJsonTouchesNoStore ==
    /\ [][(pPc = "process" /\ ~pMsg.json /\ pPc' # pPc) =>
            /\ PDecodeFailed'
            /\ snapPrev' = NoSnap
            /\ tx' = NoTx
            /\ positions' = positions
            /\ stocks' = stocks
         ]_vars
    /\ [][(wPc = "process" /\ ~wMsg.json /\ wPc' # wPc) =>
            /\ WDecodeFailed'
            /\ wCall' = NoCall
            /\ stocks' = stocks
            /\ positions' = positions
         ]_vars

\* each consumer has returned the decode error for a message; the positions
\* table still holds its row
C14_Witness ==
    /\ PDecodeFailed
    /\ WDecodeFailed
    /\ snapPrev = NoSnap
    /\ wCall = NoCall
    /\ positions = <<PriorRow>>

\* C15: the read that follows a malformed message returns the next message
\* of the topic; and once a consumer is given a malformed message it goes on
\* to read and process every message after it, and all these offsets,
\* the malformed message's included, are committed.
C15_PoisonMessageDoesNotStopConsumer ==
    /\ [][(PDecodeFailed /\ pPc' = "process") =>
            pOffset' = pOffset + 1 /\ pMsg' = pLog[pOffset + 1]]_vars
    /\ [][(WDecodeFailed /\ wPc' = "process") =>
            wOffset' = wOffset + 1 /\ wMsg' = wLog[wOffset + 1]]_vars
    /\ (pPc = "process" /\ ~pMsg.json) ~>
            (pPc = "idle" /\ pOffset = Len(pLog) /\ pCommitted = Len(pLog))
    /\ (wPc = "process" /\ ~wMsg.json) ~>
            (wPc = "idle" /\ wOffset = Len(wLog) /\ wCommitted = Len(wLog))

\* the snapshot that followed a malformed message has been handled, and both
\* offsets are committed
C15_Witness ==
    /\ pLog = <<GarbageValue, SnapshotValue(<<AaplData>>)>>
    /\ pPc = "idle"
    /\ pOffset = 2
    /\ pCommitted = 2
    /\ pResult = "nil"
    /\ Len(positions) = 1
    /\ positions[1].symbol = AAPL

(***************************************************************************)
(* current_price                                                           *)
(***************************************************************************)
\* the rows convertPositionData accepts
Converts(pd) ==
    /\ ~NewFromString(pd.Quantity).err
    /\ ~NewFromString(pd.AverageBuyPrice).err

\* the equity of a row, zero when it does not parse
EquityOf(pd) ==
    IF NewFromString(pd.Equity).err THEN DecimalZero
    ELSE NewFromString(pd.Equity).d

Min(a, b) == IF a < b THEN a ELSE b

\* c is e / q to DivisionPrecision decimal places: within half a unit of the
\* last place of the exact quotient
IsQuotient(c, e, q) ==
    LET m  == Min(Min(e.exp, c.exp + q.exp), q.exp - DivisionPrecision)
        ev == e.value * Pow10(e.exp - m)
        cq == c.value * q.value * Pow10(c.exp + q.exp - m)
        h  == Abs(q.value) * Pow10(q.exp - DivisionPrecision - m)
    IN  /\ c.exp >= -DivisionPrecision
        /\ 2 * Abs(ev - cq) <= h

\* C20: after a snapshot is handled, every row of the message that converts
\* has its table row, a zero quantity included; the row's current_price is 0
\* when the quantity is zero and equity / quantity (to the division's
\* precision, equity being 0 when it does not parse) otherwise.
C20_ZeroQuantityRowKept ==
    SnapshotHandled =>
        LET pds == SelectSeq(pMsg.Positions, Converts)
        IN  /\ Len(positions) = Len(pds)
            /\ \A i \in DOMAIN pds :
                LET q == NewFromString(pds[i].Quantity).d
                IN  /\ positions[i].symbol = pds[i].Symbol
                    /\ Cmp(positions[i].quantity, q) = 0
                    /\ IF q.value = 0
                       THEN positions[i].current_price = DecimalZero
                       ELSE IsQuotient(positions[i].current_price,
                                       EquityOf(pds[i]), q)

\* the snapshot of a zero-quantity row (equity 5) and a row 100 / 3: both are
\* in the table, with current_price 0 and 33.33
C20_Witness ==
    /\ SnapshotHandled
    /\ pMsg.Positions = <<ZeroQuantityData, ThirdsData>>
    /\ Len(positions) = 2
    /\ positions[1].symbol = MSFT
    /\ positions[1].quantity = DecimalZero
    /\ positions[1].current_price = DecimalZero
    /\ positions[2].current_price = [value |-> 3333, exp |-> -2]

(***************************************************************************)
(* Redelivery of a POSITIONS_SNAPSHOT                                      *)
(***************************************************************************)
\* the table one successful handling of the message leaves, when the
\* conversion read the clock at t1 and ReplaceAllPositions at t2
HandledOnce(value, t1, t2) ==
    LET ps == ConvertAll(value.Positions, t1)
    IN  [i \in 1..Len(ps) |-> InsertedRow(ps[i], t2)]

\* the snapshot just handled found the table as one handling of the very same
\* message leaves it: the message has been handled twice in succession
HandledTwice ==
    /\ SnapshotHandled
    /\ \E t1, t2 \in Times : snapPrev.rows = HandledOnce(pMsg, t1, t2)

\* the columns of a row that do not hold a reading of the clock
Holding(r) ==
    [symbol |-> r.symbol,
     quantity |-> r.quantity,
     entry_price |-> r.entry_price,
     current_price |-> r.current_price,
     unrealized_pnl_pct |-> r.unrealized_pnl_pct,
     days_held |-> r.days_held]

Holdings(rows) == [i \in DOMAIN rows |-> Holding(rows[i])]

\* C19 as stated: handling the same POSITIONS_SNAPSHOT twice in succession
\* leaves the positions table in the same state as handling it once.
C19_Stated_SecondHandlingLeavesSameTable ==
    HandledTwice => positions = snapPrev.rows

\* C19: handling the same POSITIONS_SNAPSHOT twice in succession leaves the
\* positions table with the same rows as handling it once, in the same order,
\* in every column but entry_date, created_at and updated_at, which hold the
\* time of the last handling.
C19_SecondHandlingLeavesSameHoldings ==
    HandledTwice => Holdings(positions) = Holdings(snapPrev.rows)

\* the AAPL snapshot handled a second time, later than the first: the same
\* holding, a newer entry_date
C19_Witness ==
    /\ HandledTwice
    /\ pMsg = S5First
    /\ Len(positions) = 1
    /\ Len(snapPrev.rows) = 1
    /\ Holdings(positions) = Holdings(snapPrev.rows)
    /\ positions[1].entry_date > snapPrev.rows[1].entry_date

(***************************************************************************)
(* Redelivery of a WATCHLIST_UPDATED                                       *)
(***************************************************************************)
\* the stocks table without last_updated
Names(table) == [k \in DOMAIN table |-> table[k].name]

\* the event just handled is the one handled before it, and no upsert of
\* either handling failed
UpdatedHandledTwice ==
    /\ wPc = "idle"
    /\ wResult = "nil"
    /\ wOffset >= 2
    /\ wLog[wOffset] = wLog[wOffset - 1]
    /\ wMsg.json
    /\ wMsg.EventType = UPDATED
    /\ ~wFailed
    /\ ~wPrev.failed

\* C18: when the same WATCHLIST_UPDATED event is handled twice in a row and
\* no upsert fails, the stocks table after the second handling has the rows
\* and names it had after the first, whatever the table held before; only
\* last_updated may differ.
C18_UpdatedTwiceIsUpdatedOnce ==
    UpdatedHandledTwice => Names(stocks) = Names(wPrev.table)

\* an event adding aapl and Msft handled twice, the second time later: the
\* same names, a newer last_updated
C18_Witness ==
    /\ UpdatedHandledTwice
    /\ wMsg.Data.AddedSymbols = <<AaplLower, MsftMixed>>
    /\ DOMAIN stocks = {AAPL, MSFT}
    /\ Names(stocks) = Names(wPrev.table)
    /\ stocks[AAPL].last_updated > wPrev.table[AAPL].last_updated

(***************************************************************************)
(* Rows of a snapshot that do not parse                                    *)
(***************************************************************************)
\* the rows of the message that convertPositionData accepts, in order
Parseable(value) == SelectSeq(value.Positions, Converts)

\* processMessage has returned for a POSITIONS_SNAPSHOT message
SnapshotReturned ==
    /\ pPc = "idle"
    /\ pResult # "none"
    /\ pMsg.json
    /\ pMsg.EventType = SNAPSHOT

\* C21: a snapshot row whose quantity or average_buy_price does not parse is
\* skipped as a whole and stops nothing: ReplaceAllPositions is still called
\* with the other rows, and when it commits the table holds one row for each
\* parseable row of the message, in order, with that row's symbol, quantity
\* and entry_price, and no row for a row that does not parse (S6: one
\* malformed and one valid row give one inserted row).
C21_UnparseableRowSkippedWhole ==
    /\ SnapshotReturned => snapPrev.called
    /\ SnapshotHandled =>
        LET good == Parseable(pMsg)
        IN  /\ Len(positions) = Len(good)
            /\ \A i \in DOMAIN positions :
                /\ positions[i].symbol = good[i].Symbol
                /\ positions[i].quantity =
                        Numeric(NewFromString(good[i].Quantity).d)
                /\ positions[i].entry_price =
                        Numeric(NewFromString(good[i].AverageBuyPrice).d)

\* S6 with the malformed row first: TSLA has no average_buy_price, AAPL is
\* valid; the replace has committed the one row AAPL
C21_Witness ==
    /\ SnapshotHandled
    /\ pMsg.Positions = <<BadPriceData, AaplData>>
    /\ Len(positions) = 1
    /\ positions[1].symbol = AAPL
    /\ positions[1].quantity = Dec(10)
    /\ positions[1].entry_price = Dec(150)

(***************************************************************************)
(* Sector and industry                                                     *)
(***************************************************************************)
\* a column of a stocks row; empty when no statement has written it
Column(row, c) == IF c \in DOMAIN row THEN row[c] ELSE <<>>

\* C22 (S2): once the WATCHLIST_SYMBOL_ADDED event (ccj, Cameco Corp, sector
\* Energy, industry Uranium) has been handled on an empty table, the table is
\* the one row CCJ with name Cameco Corp, sector Energy and industry Uranium.
C22_Stated_S2StoresSectorAndIndustry ==
    (SymbolAddedHandled /\ wMsg = S2Value /\ wPrev.table = <<>>) =>
        /\ DOMAIN stocks = {CCJ}
        /\ stocks[CCJ].name = CamecoCorp
        /\ Column(stocks[CCJ], "sector") = Energy
        /\ Column(stocks[CCJ], "industry") = Uranium

(***************************************************************************)
(* The name of an added symbol                                             *)
(***************************************************************************)
\* the entries of stocks[] whose upper-cased symbol is the upper-cased symbol
\* of the last upsert of a WATCHLIST_UPDATED
MatchingEntries ==
    {i \in DOMAIN wMsg.Data.Stocks :
        ToUpper(wMsg.Data.Stocks[i].Symbol)
            = ToUpper(wMsg.Data.AddedSymbols[wIdx - 1])}

S1Expected ==
    /\ DOMAIN stocks = {AAPL, GOOG, MSFT}
    /\ stocks[AAPL].name = AppleInc
    /\ stocks[GOOG].name = AlphabetInc
    /\ stocks[MSFT].name = MSFT

\* S1 handled once, on an empty table, no upsert failing
S1Handled ==
    /\ wPc = "idle"
    /\ wResult = "nil"
    /\ wMsg = S1Value
    /\ wOffset = 1
    /\ wPrev.table = <<>>
    /\ ~wFailed

\* C23: every upsert made for an added symbol of a WATCHLIST_UPDATED event is
\* given the name of the first stocks[] entry whose upper-cased symbol is the
\* upper-cased added symbol, and the upper-cased symbol itself when no entry
\* matches. S1 handled on an empty table leaves the rows AAPL, GOOG and MSFT
\* named Apple Inc., Alphabet Inc. and MSFT.
C23_NameFromMatchingStocksEntry ==
    /\ (wCall.made /\ wMsg.EventType = UPDATED) =>
        IF MatchingEntries = {}
        THEN wCall.name = ToUpper(wMsg.Data.AddedSymbols[wIdx - 1])
        ELSE \E i \in MatchingEntries :
                /\ \A j \in MatchingEntries : i <= j
                /\ wCall.name = wMsg.Data.Stocks[i].Name
    /\ S1Handled => S1Expected

C23_Witness ==
    /\ S1Handled
    /\ S1Expected
    /\ wCall.made
    /\ wCall.symbol = MSFT
    /\ wCall.name = MSFT
    /\ MatchingEntries = {}

(***************************************************************************)
(* Cancellation and shutdown                                               *)
(***************************************************************************)
\* main cancelled the context when the positions consumer had decoded and
\* converted its message and had not yet called db.conn.Begin()
PCancelledBeforeWrite == cancel.fired /\ cancel.p = "begin"

\* main cancelled the context when the watchlist consumer had decoded its
\* message and had issued no upsert for it yet
WCancelledBeforeWrite ==
    cancel.fired /\ cancel.w \in {"updated", "added"} /\ ~cancel.wMade

\* C24: when the context is cancelled after a message has been decoded and
\* before its store write has started, Start returns without the write ever
\* having been started (no transaction begun, no upsert issued) and without
\* the message's offset committed.
C24_Stated_CancelBeforeWriteLeavesStoreAndOffset ==
    /\ (PCancelledBeforeWrite /\ pPc = "returned") =>
        /\ ~snapPrev.called
        /\ pCommitted < pOffset
    /\ (WCancelledBeforeWrite /\ wPc = "returned") =>
        /\ ~wCall.made
        /\ wCommitted < wOffset

\* the consumer is done with the message it read last
PDone == pPc \in {"idle", "returned"} /\ pOffset > 0

WDone == wPc \in {"idle", "returned"} /\ wOffset > 0

\* C25: whenever a consumer is done with a message and the message's offset
\* is committed, all the store effects of the message were applied: a
\* snapshot was replaced and committed, every upsert of a watchlist event
\* was accepted by the store. This holds up to and through shutdown.
C25_Stated_CommittedOffsetMeansApplied ==
    /\ (PDone /\ pCommitted = pOffset /\ pMsg.json /\ pMsg.EventType = SNAPSHOT)
            => pResult = "nil"
    /\ (WDone /\ wCommitted = wOffset /\ wMsg.json
              /\ wMsg.EventType \in {UPDATED, ADDED})
            => (wResult = "nil" /\ ~wFailed)

\* C26 (the part on the ways out of Start): a Start that has returned because
\* of the cancellation has closed its reader.
C26_Stated_StartClosesReaderBeforeReturning ==
    /\ pPc = "returned" => pClosed
    /\ wPc = "returned" => wClosed

(***************************************************************************)
(* Rows and symbols of the positions table                                 *)
(***************************************************************************)
\* C27: the positions table never holds two rows with the same symbol, also
\* after a snapshot that lists a symbol more than once has been applied.
C27_Stated_OneRowPerSymbol ==
    \A i, j \in DOMAIN positions :
        positions[i].symbol = positions[j].symbol => i = j

\* C28: no row of the positions table has a quantity or an entry_price below
\* zero, whatever the snapshot rows carry.
C28_Stated_QuantityAndPriceNonNegative ==
    \A i \in DOMAIN positions :
        /\ positions[i].quantity.value >= 0
        /\ positions[i].entry_price.value >= 0

\* C29: every row a snapshot writes has its symbol in upper case: a row that
\* carries "aapl" is stored as AAPL.
C29_Stated_PositionSymbolUpperCased ==
    /\ \A i \in DOMAIN positions : ~HasLowerCase(positions[i].symbol)
    /\ (SnapshotHandled /\ pMsg.Positions = <<ShortData, LowerSymbolData>>)
            => positions[2].symbol = AAPL

(***************************************************************************)
(* Order of two upserts                                                    *)
(***************************************************************************)
UpsertSymbols == {AAPL, MSFT}

UpsertNames == {<<>>, AAPL, MSFT, AppleInc, AppleCo}

\* a name the merge rule of UpsertStockBasic does not protect
Placeholder(symbol, name) == name = <<>> \/ name = symbol

\* the step is an upsert the store accepts: UpsertStockBasic(wCall'.symbol,
\* wCall'.name) takes the table from stocks to stocks'
UpsertStep == wPc \in {"added", "updated"} /\ wCall'.made /\ wCall'.ok

\* the table, without last_updated, after UpsertStockBasic(s1, n1) and then
\* UpsertStockBasic(s2, n2)
AfterBoth(table, s1, n1, s2, n2) ==
    Names(UpsertStockBasic(UpsertStockBasic(table, s1, n1, clock),
                           s2, n2, clock))

\* C30 as stated: an upsert of the consumer followed by UpsertStockBasic(s1,
\* n1) leaves the same table, last_updated apart, as the two in the other
\* order, for every s1 and n1 (the same symbol with another name included).
C30_Stated_UpsertsCommute ==
    [][UpsertStep =>
        \A s1 \in UpsertSymbols, n1 \in UpsertNames :
            Names(UpsertStockBasic(stocks', s1, n1, clock))
                = AfterBoth(stocks, s1, n1, wCall'.symbol, wCall'.name)]_vars

\* two upserts whose order does not matter: different symbols; or one symbol
\* and equal names, or a row that already holds a protected name, or exactly
\* one placeholder among the two names
OrderFree(table, s1, n1, s2, n2) ==
    \/ s1 # s2
    \/ n1 = n2
    \/ (s1 \in DOMAIN table /\ ~Placeholder(s1, table[s1].name))
    \/ Placeholder(s1, n1) # Placeholder(s2, n2)

\* C30: two upserts commute (last_updated apart) when they are for different
\* symbols; for one symbol they commute when the names are equal, when the
\* row already holds a name that is neither empty nor the symbol, or when
\* exactly one of the two names is empty or the symbol. In every other case
\* the two orders leave different names.
C30_UpsertsCommuteUnlessNamesCompete ==
    [][UpsertStep =>
        \A s1 \in UpsertSymbols, n1 \in UpsertNames :
            OrderFree(stocks, s1, n1, wCall'.symbol, wCall'.name)
                <=> (Names(UpsertStockBasic(stocks', s1, n1, clock))
                        = AfterBoth(stocks, s1, n1,
                                    wCall'.symbol, wCall'.name))]_vars

\* MSFT upserted after AAPL: the table is the one the other order gives
C30_Witness ==
    /\ wCall.made
    /\ wCall.ok
    /\ wCall.symbol = MSFT
    /\ DOMAIN stocks = {AAPL, MSFT}
    /\ stocks[AAPL].name = AppleInc
    /\ Names(stocks) = AfterBoth(<<>>, MSFT, wCall.name, AAPL, AppleInc)

(***************************************************************************)
(* Messages of the positions topic that are not snapshots                  *)
(***************************************************************************)
\* the message in hand decodes and its event_type is not POSITIONS_SNAPSHOT
NotASnapshot == pMsg.json /\ pMsg.EventType # SNAPSHOT

\* C33: a decodable message of the positions topic whose event_type is not
\* POSITIONS_SNAPSHOT is handled in one step that returns nil, does not call
\* ReplaceAllPositions (no transaction is begun) and leaves the positions
\* table as it was, also when the message carries a positions list.
C33_OtherEventTypeIgnored ==
    /\ [][(pPc = "process" /\ NotASnapshot) =>
            /\ pPc' = "idle"
            /\ pResult' = "nil"
            /\ positions' = positions
            /\ tx' = tx
            /\ snapPrev' = snapPrev]_vars
    /\ [](NotASnapshot => (~snapPrev.called /\ ~tx.open))

\* an ACCOUNT_UPDATED message with one position in its list, handled: the
\* table still holds the row it held
C33_Witness ==
    /\ pPc = "idle"
    /\ pMsg = OtherValue
    /\ Len(pMsg.Positions) = 1
    /\ pResult = "nil"
    /\ ~snapPrev.called
    /\ positions = <<PriorRow>>

(***************************************************************************)
(* Snapshots with no row to write                                          *)
(***************************************************************************)
\* C37: a POSITIONS_SNAPSHOT whose positions list is empty, or in which no
\* row parses, still replaces the table: once it is handled successfully the
\* positions table is empty, whatever it held.
C37_EmptySnapshotEmptiesTable ==
    /\ (SnapshotReturned /\ Parseable(pMsg) = <<>>) => snapPrev.called
    /\ (SnapshotHandled /\ Parseable(pMsg) = <<>>) => positions = <<>>

\* a snapshot of two rows, neither of which parses, handled on a table that
\* held a row
C37_Witness ==
    /\ SnapshotHandled
    /\ pMsg.Positions = <<BadQuantityData, BadPriceData>>
    /\ snapPrev.rows = <<PriorRow>>
    /\ positions = <<>>

(***************************************************************************)
(* Rows whose equity or percent_change does not parse                      *)
(***************************************************************************)
\* C34: an equity or percent_change that does not parse is replaced by zero
\* and the row is still written: once the snapshot is handled the table holds
\* a row for every row whose quantity and average_buy_price parse; the row of
\* an unparseable equity has current_price zero whatever its quantity, the
\* row of an unparseable percent_change has unrealized_pnl_pct zero, and no
\* snapshot fails in conversion.
C34_BadEquityOrPercentBecomesZero ==
    /\ SnapshotHandled =>
        /\ Len(positions) = Len(Parseable(pMsg))
        /\ \A i \in DOMAIN Parseable(pMsg) :
            LET pd == Parseable(pMsg)[i]
            IN  /\ positions[i].symbol = pd.Symbol
                /\ NewFromString(pd.Equity).err =>
                       IsZero(positions[i].current_price)
                /\ NewFromString(pd.PercentChange).err =>
                       positions[i].unrealized_pnl_pct = DecimalZero
    /\ SnapshotReturned => pResult \in {"nil", "failed to replace positions"}

\* the snapshot of a row without equity (quantity 4) and a row without
\* percent_change, handled: both rows are in the table with zero in the
\* column that did not parse
C34_Witness ==
    /\ SnapshotHandled
    /\ pMsg.Positions = <<NoEquityData, NoPercentData>>
    /\ Len(positions) = 2
    /\ ~IsZero(positions[1].quantity)
    /\ IsZero(positions[1].current_price)
    /\ positions[1].unrealized_pnl_pct = Dec(2)
    /\ positions[2].current_price = Dec(15)
    /\ positions[2].unrealized_pnl_pct = DecimalZero

(***************************************************************************)
(* A stored name that is not a placeholder                                 *)
(***************************************************************************)
\* C35: once the name stored for a symbol is non-empty and differs from the
\* symbol, no watchlist event changes it: every step of the consumer and the
\* store leaves that row in the table with that name.
C35_RealNameIsFinal ==
    [][\A k \in DOMAIN stocks :
        ~Placeholder(k, stocks[k].name) =>
            /\ k \in DOMAIN stocks'
            /\ stocks'[k].name = stocks[k].name]_vars

\* an upsert offering another real name for AAPL has been accepted by the
\* store, and the row still has the name it had
C35_Witness ==
    /\ wCall.made /\ wCall.ok
    /\ wCall.symbol = AAPL
    /\ ~Placeholder(AAPL, wCall.name)
    /\ AAPL \in DOMAIN stocks
    /\ ~Placeholder(AAPL, stocks[AAPL].name)
    /\ stocks[AAPL].name # wCall.name

(***************************************************************************)
(* The arguments of UpsertStockBasic                                       *)
(***************************************************************************)
\* C36 as stated: every call of UpsertStockBasic the watchlist consumer makes
\* carries a non-empty symbol and a non-empty name, also for an added symbol
\* whose matching stocks[] entry has an empty name.
C36_Stated_UpsertArgsNeverEmpty ==
    wCall.made => (wCall.symbol # <<>> /\ wCall.name # <<>>)

(***************************************************************************)
(* main: startup and shutdown                                              *)
(***************************************************************************)
\* C31 as stated: once main has started its consumers and waits for the
\* signal, both ingest consumers, the watchlist consumer and the positions
\* consumer, have been started, and after the one cancel neither of them is
\* left unstarted or consuming without having been told.
C31_Stated_HostStartsBothConsumers ==
    host.pc # "start" => (pPc # "unstarted" /\ wPc # "unstarted")

\* the points of PositionsConsumer.Start between the return of ReadMessage
\* and the return of processMessage
ApplyingPoints == {"process", "begin", "delete", "insert", "commit"}

\* C32 as stated: a store call that is running when the context is cancelled
\* runs to its end before the consumer's Start returns, and the process does
\* not end while a message is being applied.
C32_Stated_NoExitWhileApplying ==
    /\ pPc = "returned" => ~tx.open
    /\ host.pc = "exited" => host.pAt \notin ApplyingPoints

\* C39 as stated: through a shutdown (cancel, srv.Shutdown, the Close calls
\* of main) Close is called on the reader of the positions consumer exactly
\* once: never twice, and once when main is past its Close calls.
C39_Stated_ReaderClosedExactlyOnce ==
    /\ host.pCloses <= 1
    /\ host.pc = "closed" => host.pCloses = 1

\* C38: after main has cancelled the context each consumer begins at most
\* one further message before its Start returns, and none when a message was
\* in hand at the cancellation; a Start that has returned reads no message
\* and writes nothing to the store.
C38_AtMostOneMessageAfterCancel ==
    /\ [](cancel.fired =>
            /\ pOffset <= cancel.pOff + 1
            /\ wOffset <= cancel.wOff + 1
            /\ cancel.p # "idle" => pOffset = cancel.pOff
            /\ cancel.w # "idle" => wOffset = cancel.wOff)
    /\ [][/\ pPc = "returned" =>
                /\ pPc' = "returned"
                /\ pOffset' = pOffset
                /\ positions' = positions
                /\ tx' = tx
          /\ wPc = "returned" =>
                /\ wPc' = "returned"
                /\ wOffset' = wOffset
                /\ stocks' = stocks]_vars

\* the context was cancelled with the positions consumer in ReadMessage; it
\* was given one more snapshot, applied it and returned, with a message left
\* on its topic
C38_Witness ==
    /\ cancel.fired
    /\ cancel.p = "idle"
    /\ pOffset = cancel.pOff + 1
    /\ pPc = "returned"
    /\ pResult = "nil"
    /\ snapPrev.called
    /\ pOffset < Len(pLog)

====
